---- MODULE Spec2Model ----
(***************************************************************************)
(* Model of the form-data-serializer core (serialize-refactor):            *)
(*   _validateExtensions, serialize, deserialize and the BlobExtension.    *)
(*                                                                         *)
(* A JavaScript string is a sequence of one-character strings, so that     *)
(* JSON quoting, JSON parsing and the placeholder regular expression are   *)
(* computed character by character.  A JavaScript value is a record with   *)
(* a tag t:                                                                *)
(*   undefined | hole | null | boolean b | number k n | string s           *)
(*   | blob id | array xs | object es (ordered own entries [k, v])         *)
(*   | date d | symbol s | regexp s         (values the core calls exotic) *)
(***************************************************************************)
EXTENDS Integers, Sequences, FiniteSets, TLC

VARIABLES
    pc,         \* "start" | "failed" | "encoded" | "decoded"
                \* | "validate" | "validated" | "received"
    value,      \* the value handed to serialize
    config,     \* the SerializeConfig handed to serialize (and deserialize)
    exts,       \* config.extensions handed to serialize
    enc,        \* outcome of serialize (or of _validateExtensions alone):
                \* [err, result, table, log]
    formData,   \* the FormData container handed to deserialize
    dexts,      \* config.extensions handed to deserialize
    dec         \* outcome of deserialize: [err, result, table, log]

vars == <<pc, value, config, exts, enc, formData, dexts, dec>>

---------------------------------------------------------------------------
(* JavaScript values *)

Undefined == [t |-> "undefined"]
Hole == [t |-> "hole"]
Null == [t |-> "null"]
Bool(b) == [t |-> "boolean", b |-> b]
Num(n) == [t |-> "number", k |-> "finite", n |-> n]
NaN == [t |-> "number", k |-> "NaN", n |-> 0]
Infinity == [t |-> "number", k |-> "Infinity", n |-> 0]
NegZero == [t |-> "number", k |-> "-0", n |-> 0]
Str(s) == [t |-> "string", s |-> s]
Blob(id) == [t |-> "blob", id |-> id]
Arr(xs) == [t |-> "array", xs |-> xs]
Obj(es) == [t |-> "object", es |-> es]
DateV(d) == [t |-> "date", d |-> d]
InvalidDate == [t |-> "date", d |-> -1]
SymbolV(s) == [t |-> "symbol", s |-> s]
RegExpV(s) == [t |-> "regexp", s |-> s]

Entry(k, v) == [k |-> k, v |-> v]

\* the absent marker of an optional string (an unset config field, FormData.get's null)
Unset == <<"<unset>">>

---------------------------------------------------------------------------
(* Strings *)

RECURSIVE Concat(_)
Concat(ss) == IF ss = <<>> THEN <<>> ELSE Head(ss) \o Concat(Tail(ss))

StartsWith(s, p) == Len(p) <= Len(s) /\ SubSeq(s, 1, Len(p)) = p

Includes(s, c) == \E i \in 1..Len(s) : s[i] = c

\* String.prototype.trim() leaves nothing
WhiteSpace == {" ", "\t", "\n", "\r"}
TrimIsEmpty(s) == \A i \in 1..Len(s) : s[i] \in WhiteSpace

Digits == <<"0", "1", "2", "3", "4", "5", "6", "7", "8", "9">>
DigitVal(c) == CHOOSE d \in 0..9 : Digits[d + 1] = c
IsDigit(c) == \E d \in 1..10 : Digits[d] = c

\* Number.prototype.toString of a non-negative integer
RECURSIVE NatToChars(_)
NatToChars(n) == IF n < 10 THEN <<Digits[n + 1]>>
                 ELSE NatToChars(n \div 10) \o <<Digits[(n % 10) + 1]>>

IntToChars(n) == IF n < 0 THEN <<"-">> \o NatToChars(-n) ELSE NatToChars(n)

---------------------------------------------------------------------------
(* Plain objects: own enumerable string-keyed properties in insertion order *)

sProto == <<"_", "_", "p", "r", "o", "t", "o", "_", "_">>

HasKey(es, k) == \E i \in 1..Len(es) : es[i].k = k

\* CreateDataProperty: what JSON.parse uses to build an object
DefineProp(es, k, v) ==
    IF HasKey(es, k)
    THEN [i \in 1..Len(es) |-> IF es[i].k = k THEN Entry(k, v) ELSE es[i]]
    ELSE Append(es, Entry(k, v))

\* result[key] = v on an ordinary object: the key "__proto__" reaches the
\* accessor inherited from Object.prototype and creates no own property
SetProp(es, k, v) == IF k = sProto THEN es ELSE DefineProp(es, k, v)

---------------------------------------------------------------------------
(* JSON.stringify *)

\* Date.prototype.toISOString, abstracted to an injective text "T<d>"
toISOString(d) == <<"T">> \o NatToChars(d)

\* QuoteJSONString
RECURSIVE EscapeChars(_)
EscapeChars(s) ==
    IF s = <<>> THEN <<>>
    ELSE (CASE Head(s) = "\"" -> <<"\\", "\"">>
            [] Head(s) = "\\" -> <<"\\", "\\">>
            [] Head(s) = "\n" -> <<"\\", "n">>
            [] Head(s) = "\t" -> <<"\\", "t">>
            [] Head(s) = "\r" -> <<"\\", "r">>
            [] OTHER -> <<Head(s)>>) \o EscapeChars(Tail(s))

QuoteJSONString(s) == <<"\"">> \o EscapeChars(s) \o <<"\"">>

\* SerializeJSONProperty: Unset stands for the result undefined
RECURSIVE JSONText(_)
RECURSIVE JSONElements(_, _)
RECURSIVE JSONMembers(_)
JSONText(v) ==
    CASE v.t = "null" -> <<"n", "u", "l", "l">>
      [] v.t = "boolean" -> IF v.b THEN <<"t", "r", "u", "e">>
                            ELSE <<"f", "a", "l", "s", "e">>
      [] v.t = "number" -> IF v.k = "finite" THEN IntToChars(v.n)
                           ELSE IF v.k = "-0" THEN <<"0">>
                           ELSE <<"n", "u", "l", "l">>
      [] v.t = "string" -> <<"\"">> \o EscapeChars(v.s) \o <<"\"">>
      [] v.t = "array" -> <<"[">> \o JSONElements(v.xs, 1) \o <<"]">>
      [] v.t = "object" -> <<"{">> \o JSONMembers(v.es) \o <<"}">>
      [] v.t = "date" -> IF v = InvalidDate THEN <<"n", "u", "l", "l">>
                         ELSE <<"\"">> \o toISOString(v.d) \o <<"\"">>
      [] v.t \in {"regexp", "blob"} -> <<"{", "}">>
      [] OTHER -> Unset      \* undefined, hole, symbol

\* an array element whose text is undefined is written null
OrNull(text) == IF text = Unset THEN <<"n", "u", "l", "l">> ELSE text

JSONElements(xs, i) ==
    IF i > Len(xs) THEN <<>>
    ELSE (IF i > 1 THEN <<",">> ELSE <<>>) \o OrNull(JSONText(xs[i]))
         \o JSONElements(xs, i + 1)

\* the members [k, text] written: a property whose text is undefined is left out
RECURSIVE JoinMembers(_, _)
JoinMembers(ms, i) ==
    IF i > Len(ms) THEN <<>>
    ELSE (IF i > 1 THEN <<",">> ELSE <<>>)
         \o QuoteJSONString(ms[i].k) \o <<":">> \o ms[i].text \o JoinMembers(ms, i + 1)

JSONMembers(es) ==
    JoinMembers(SelectSeq([i \in 1..Len(es) |-> [k |-> es[i].k, text |-> JSONText(es[i].v)]],
                          LAMBDA m : m.text # Unset), 1)

JSONstringify(v) == JSONText(v)

\* FormData.set(name, value) with a non-Blob value stores String(value)
ToFormString(s) == IF s = Unset THEN <<"u", "n", "d", "e", "f", "i", "n", "e", "d">>
                   ELSE s

---------------------------------------------------------------------------
(* JSON.parse: [ok, v, i] is the value read and the index after it.  The   *)
(* number grammar read is an optional "-" and a decimal integer without    *)
(* leading zeros: no text of the model holds a fraction or an exponent.    *)

ParseFail == [ok |-> FALSE, v |-> Null, i |-> 0]
ParseOk(v, i) == [ok |-> TRUE, v |-> v, i |-> i]

RECURSIVE SkipWs(_, _)
SkipWs(s, i) == IF i <= Len(s) /\ s[i] \in WhiteSpace THEN SkipWs(s, i + 1) ELSE i

HasLit(s, i, lit) == i + Len(lit) - 1 <= Len(s) /\ SubSeq(s, i, i + Len(lit) - 1) = lit

Unescape(c) ==
    CASE c = "n" -> "\n"
      [] c = "t" -> "\t"
      [] c = "r" -> "\r"
      [] OTHER -> c

\* the characters of a JSON string after its opening quote
RECURSIVE ParseChars(_, _, _)
ParseChars(s, i, acc) ==
    IF i > Len(s) THEN ParseFail
    ELSE IF s[i] = "\"" THEN ParseOk(acc, i + 1)
    ELSE IF s[i] = "\\"
         THEN IF i + 1 <= Len(s) /\ s[i + 1] \in {"\"", "\\", "/", "n", "t", "r"}
              THEN ParseChars(s, i + 2, Append(acc, Unescape(s[i + 1])))
              ELSE ParseFail
    ELSE IF s[i] \in {"\n", "\t", "\r"} THEN ParseFail
    ELSE ParseChars(s, i + 1, Append(acc, s[i]))

RECURSIVE ParseDigits(_, _, _)
ParseDigits(s, i, acc) ==
    IF i <= Len(s) /\ IsDigit(s[i]) THEN ParseDigits(s, i + 1, acc * 10 + DigitVal(s[i]))
    ELSE [n |-> acc, i |-> i]

ParseNumber(s, i) ==
    LET neg == s[i] = "-"
        j == IF neg THEN i + 1 ELSE i
    IN  IF j > Len(s) \/ ~IsDigit(s[j]) THEN ParseFail
        ELSE LET r == IF s[j] = "0" THEN [n |-> 0, i |-> j + 1] ELSE ParseDigits(s, j, 0)
             IN  IF r.i <= Len(s) /\ s[r.i] \in {".", "e", "E"} THEN ParseFail
                 ELSE IF neg /\ r.n = 0 THEN ParseOk(NegZero, r.i)
                 ELSE ParseOk(Num(IF neg THEN -r.n ELSE r.n), r.i)

RECURSIVE ParseValue(_, _)
RECURSIVE ParseElements(_, _, _)
RECURSIVE ParseMembers(_, _, _)
ParseValue(s, i0) ==
    LET i == SkipWs(s, i0)
    IN  IF i > Len(s) THEN ParseFail
        ELSE IF HasLit(s, i, <<"n", "u", "l", "l">>) THEN ParseOk(Null, i + 4)
        ELSE IF HasLit(s, i, <<"t", "r", "u", "e">>) THEN ParseOk(Bool(TRUE), i + 4)
        ELSE IF HasLit(s, i, <<"f", "a", "l", "s", "e">>) THEN ParseOk(Bool(FALSE), i + 5)
        ELSE IF s[i] = "\""
             THEN LET r == ParseChars(s, i + 1, <<>>)
                  IN  IF r.ok THEN ParseOk(Str(r.v), r.i) ELSE ParseFail
        ELSE IF s[i] = "-" \/ IsDigit(s[i]) THEN ParseNumber(s, i)
        ELSE IF s[i] = "["
             THEN LET j == SkipWs(s, i + 1)
                  IN  IF j <= Len(s) /\ s[j] = "]" THEN ParseOk(Arr(<<>>), j + 1)
                      ELSE ParseElements(s, i + 1, <<>>)
        ELSE IF s[i] = "{"
             THEN LET j == SkipWs(s, i + 1)
                  IN  IF j <= Len(s) /\ s[j] = "}" THEN ParseOk(Obj(<<>>), j + 1)
                      ELSE ParseMembers(s, i + 1, <<>>)
        ELSE ParseFail

\* after "[" or ",": one element, then "," or "]"
ParseElements(s, i, acc) ==
    LET r == ParseValue(s, i)
    IN  IF ~r.ok THEN ParseFail
        ELSE LET j == SkipWs(s, r.i)
             IN  IF j > Len(s) THEN ParseFail
                 ELSE IF s[j] = "]" THEN ParseOk(Arr(Append(acc, r.v)), j + 1)
                 ELSE IF s[j] = "," THEN ParseElements(s, j + 1, Append(acc, r.v))
                 ELSE ParseFail

\* after "{" or ",": one "key": value member, then "," or "}"
ParseMembers(s, i0, acc) ==
    LET i == SkipWs(s, i0)
    IN  IF i > Len(s) \/ s[i] # "\"" THEN ParseFail
        ELSE LET k == ParseChars(s, i + 1, <<>>)
             IN  IF ~k.ok THEN ParseFail
                 ELSE LET c == SkipWs(s, k.i)
                      IN  IF c > Len(s) \/ s[c] # ":" THEN ParseFail
                          ELSE LET r == ParseValue(s, c + 1)
                               IN  IF ~r.ok THEN ParseFail
                                   ELSE LET j == SkipWs(s, r.i)
                                            es == DefineProp(acc, k.v, r.v)
                                        IN  IF j > Len(s) THEN ParseFail
                                            ELSE IF s[j] = "}" THEN ParseOk(Obj(es), j + 1)
                                            ELSE IF s[j] = "," THEN ParseMembers(s, j + 1, es)
                                            ELSE ParseFail

\* JSON.parse(text): ok = FALSE is the SyntaxError it throws
JSONparse(s) ==
    LET r == ParseValue(s, 1)
    IN  IF r.ok /\ SkipWs(s, r.i) = Len(s) + 1 THEN [ok |-> TRUE, v |-> r.v]
        ELSE [ok |-> FALSE, v |-> Null]

---------------------------------------------------------------------------
(* Errors.  The code throws Error objects told apart by their message;     *)
(* kind names the failure and arg is what the message quotes.              *)

NoErr == [kind |-> "none", arg |-> <<>>]
Err(kind, arg) == [kind |-> kind, arg |-> arg]

---------------------------------------------------------------------------
(* Extensions: [name, kind]; kind selects canHandle, serialize and         *)
(* deserialize among the extensions of the repository and of its tests.    *)

sBlob == <<"b", "l", "o", "b">>
sDate == <<"d", "a", "t", "e">>
sSecondDate == <<"s", "e", "c", "o", "n", "d", "-", "d", "a", "t", "e">>
sSymbol == <<"s", "y", "m", "b", "o", "l">>
sRegexp == <<"r", "e", "g", "e", "x", "p">>
sAny == <<"a", "n", "y">>
sBrokenDate == <<"b", "r", "o", "k", "e", "n", "-", "d", "a", "t", "e">>
sSECOND == <<"S", "E", "C", "O", "N", "D", ":">>
sObjectBlob == <<"[", "o", "b", "j", "e", "c", "t", " ", "B", "l", "o", "b", "]">>

Ext(name, kind) == [name |-> name, kind |-> kind]

BlobExtension == Ext(sBlob, "blob")
DateExtension == Ext(sDate, "date")
mockSecondDateExtension == Ext(sSecondDate, "second-date")
SymbolExtension == Ext(sSymbol, "symbol")
regexpExtension == Ext(sRegexp, "regexp")
anyExtension == Ext(sAny, "any")
brokenExtension == Ext(sBrokenDate, "broken-date")
\* a caller's date extension whose canHandle also accepts null and undefined
nullableExtension == Ext(<<"n", "d">>, "nullable")

canHandle(e, v) ==
    CASE e.kind = "blob" -> v.t = "blob"
      [] e.kind \in {"date", "second-date", "broken-date"} -> v.t = "date"
      [] e.kind = "symbol" -> v.t = "symbol"
      [] e.kind = "regexp" -> v.t = "regexp"
      [] e.kind = "any" -> TRUE
      [] e.kind = "nullable" -> v.t \in {"null", "undefined", "date"}
      [] OTHER -> FALSE

Threw(what) == [threw |-> TRUE, v |-> Undefined, e |-> Err("ExtensionError", what)]
Returned(v) == [threw |-> FALSE, v |-> v, e |-> NoErr]

\* text ?? ""
OrEmpty(s) == IF s = Unset THEN <<>> ELSE s

\* extension.serialize(value): the payload returned, or the error thrown
extSerialize(e, v) ==
    CASE e.kind = "blob" -> Returned(v)
      [] e.kind \in {"date", "broken-date", "nullable"} ->
            IF v.t # "date" THEN Returned(Str(<<>>))
            ELSE IF v = InvalidDate THEN Threw(<<"R", "a", "n", "g", "e", "E", "r", "r", "o", "r">>)
            ELSE Returned(Str(toISOString(v.d)))
      [] e.kind = "second-date" ->
            Returned(Str(sSECOND \o (IF v = InvalidDate THEN <<"N", "a", "N">>
                                     ELSE IntToChars(v.d))))
      [] e.kind = "symbol" -> Returned(Str(v.s))
      [] e.kind = "regexp" -> Returned(Blob(v.s))
      [] e.kind = "any" -> Returned(Str(OrEmpty(JSONstringify(v))))
      [] OTHER -> Returned(Str(<<>>))

\* new Date(text) and Number.parseInt(text, 10) on the texts the date extensions write
DateOfISO(s) ==
    IF Len(s) >= 2 /\ s[1] = "T" /\ \A i \in 2..Len(s) : IsDigit(s[i])
    THEN DateV(ParseDigits(s, 2, 0).n)
    ELSE InvalidDate

DateOfMillis(s) ==
    IF Len(s) >= 1 /\ IsDigit(s[1]) THEN DateV(ParseDigits(s, 1, 0).n)
    ELSE InvalidDate

\* JSON.parse(text) inside an extension: its SyntaxError is thrown on
ParsedOrThrow(p) ==
    IF p.ok THEN Returned(p.v)
    ELSE Threw(<<"S", "y", "n", "t", "a", "x", "E", "r", "r", "o", "r">>)

\* extension.deserialize(stored): the value returned, or the error thrown
extDeserialize(e, stored) ==
    CASE e.kind = "blob" -> Returned(stored)
      [] e.kind \in {"date", "nullable"} ->
            Returned(IF stored.t = "string" THEN DateOfISO(stored.s) ELSE InvalidDate)
      [] e.kind = "second-date" ->
            IF stored.t # "string" THEN Threw(<<"T", "y", "p", "e", "E", "r", "r", "o", "r">>)
            ELSE Returned(DateOfMillis(IF StartsWith(stored.s, sSECOND)
                                       THEN SubSeq(stored.s, Len(sSECOND) + 1, Len(stored.s))
                                       ELSE stored.s))
      [] e.kind = "symbol" ->
            Returned(SymbolV(IF stored.t = "string" THEN stored.s ELSE sObjectBlob))
      [] e.kind = "regexp" ->
            Returned(RegExpV(IF stored.t = "blob" THEN stored.id ELSE stored.s))
      [] e.kind = "any" ->
            IF stored.t = "string" THEN ParsedOrThrow(JSONparse(stored.s))
            ELSE Threw(<<"S", "y", "n", "t", "a", "x", "E", "r", "r", "o", "r">>)
      [] e.kind = "broken-date" ->
            Threw(<<"D", "e", "s", "e", "r", "i", "a", "l", "i", "z", "a", "t", "i", "o", "n",
                    " ", "f", "a", "i", "l", "e", "d">>)
      [] OTHER -> Returned(Null)

---------------------------------------------------------------------------
(* _validateExtensions *)

sRef == <<"r", "e", "f">>
sExt == <<"e", "x", "t">>

\* /^(\$|ref|ext)/.test(name)
HasReservedPrefix(name) ==
    StartsWith(name, <<"$">>) \/ StartsWith(name, sRef) \/ StartsWith(name, sExt)

\* a variant of validateOne that forgets the names seen so far
validateOneNoSeen(name, seenNames) ==
    IF Includes(name, ":") THEN Err("InvalidExtensionName", name)
    ELSE IF TrimIsEmpty(name) THEN Err("InvalidExtensionName", name)
    ELSE IF HasReservedPrefix(name) THEN Err("ReservedPrefix", name)
    ELSE NoErr

\* a variant of validateOne that tests the reserved prefixes first
validateOneReservedFirst(name, seenNames) ==
    IF HasReservedPrefix(name) THEN Err("ReservedPrefix", name)
    ELSE IF Includes(name, ":") THEN Err("InvalidExtensionName", name)
    ELSE IF TrimIsEmpty(name) THEN Err("InvalidExtensionName", name)
    ELSE IF name \in seenNames THEN Err("DuplicateExtensionName", name)
    ELSE NoErr

\* the checks made on one extension, in the order of the loop body
validateOne(name, seenNames) ==
    IF Includes(name, ":") THEN Err("InvalidExtensionName", name)
    ELSE IF TrimIsEmpty(name) THEN Err("InvalidExtensionName", name)
    ELSE IF HasReservedPrefix(name) THEN Err("ReservedPrefix", name)
    ELSE IF name \in seenNames THEN Err("DuplicateExtensionName", name)
    ELSE NoErr

RECURSIVE validateFrom(_, _, _)
validateNext(extensions, i, seenNames, e) ==
    IF e # NoErr THEN e
    ELSE validateFrom(extensions, i + 1, seenNames \cup {extensions[i].name})

validateFrom(extensions, i, seenNames) ==
    IF i > Len(extensions) THEN NoErr
    ELSE validateNext(extensions, i, seenNames, validateOne(extensions[i].name, seenNames))

\* NoErr when the function returns, the error thrown otherwise
validateExtensions(extensions) == validateFrom(extensions, 1, {})

---------------------------------------------------------------------------
(* SerializeConfig: [data, extension, generateDataId]; data and extension  *)
(* are referencePrefix.data and referencePrefix.extension (Unset when not  *)
(* given), generateDataId is "default" (not given: randomUUID), "counter"  *)
(* (the documented `custom-${counter++}`), "constant" (one id for all) or   *)
(* "colon" or "newline" (distinct ids that hold a ":", a line feed).       *)

DEFAULT_REFERENCE_PREFIX ==
    [data |-> <<"$", "d", "a", "t", "a">>, extension |-> <<"$", "e", "x", "t">>]

\* config?.referencePrefix?.extension ? ... : DEFAULT (a truthiness test)
GET_HOLE_KEY(cfg, extName, id) ==
    (IF cfg.extension # Unset /\ cfg.extension # <<>> THEN cfg.extension
     ELSE DEFAULT_REFERENCE_PREFIX.extension) \o <<":">> \o extName \o <<":">> \o id

\* config?.referencePrefix?.data ?? DEFAULT
DATA_KEY(cfg) == IF cfg.data # Unset THEN cfg.data ELSE DEFAULT_REFERENCE_PREFIX.data

\* config?.referencePrefix?.extension ?? DEFAULT
extPrefix(cfg) ==
    IF cfg.extension # Unset THEN cfg.extension ELSE DEFAULT_REFERENCE_PREFIX.extension

\* the id of the (n+1)-th hole of one serialize call
generateDataId(cfg, item, n) ==
    CASE cfg.generateDataId = "counter" ->
            <<"c", "u", "s", "t", "o", "m", "-">> \o NatToChars(n)
      [] cfg.generateDataId = "constant" -> <<"i", "d">>
      [] cfg.generateDataId = "colon" -> <<"i", ":">> \o NatToChars(n)
      [] cfg.generateDataId = "newline" -> <<"i", "\n">> \o NatToChars(n)
      [] OTHER -> <<"u">> \o NatToChars(n + 1)       \* randomUUID(): fresh each time

---------------------------------------------------------------------------
(* The placeholder pattern new RegExp(`^${escapedExtPrefix}:([^:]+):(.+)$`) *)
(* The prefix part is read as regular-expression source: "\" escapes the   *)
(* next character, "." matches any character but a line terminator, and    *)
(* "+", "*", "?" repeat the atom before them (greedily).                   *)

\* extPrefix.replace(/\$/g, "\\$")
RECURSIVE escapeDollar(_)
escapeDollar(s) ==
    IF s = <<>> THEN <<>>
    ELSE (IF Head(s) = "$" THEN <<"\\", "$">> ELSE <<Head(s)>>) \o escapeDollar(Tail(s))

LineTerminators == {"\n", "\r"}

Atom(c, lit) == [c |-> c, lit |-> lit, q |-> "1"]

\* the atoms of the prefix source; ok = FALSE is the SyntaxError of new RegExp
\* ("(", ")" and "[" occur unbalanced only, a quantifier needs an atom to repeat)
RECURSIVE compilePrefix(_, _, _)
compilePrefix(src, i, acc) ==
    IF i > Len(src) THEN [ok |-> TRUE, atoms |-> acc]
    ELSE IF src[i] = "\\"
         THEN IF i = Len(src) THEN [ok |-> TRUE, atoms |-> acc]   \* escapes the ":" after it
              ELSE compilePrefix(src, i + 2, Append(acc, Atom(src[i + 1], TRUE)))
    ELSE IF src[i] = "." THEN compilePrefix(src, i + 1, Append(acc, Atom(".", FALSE)))
    ELSE IF src[i] \in {"+", "*", "?"}
         THEN IF acc = <<>> \/ acc[Len(acc)].q # "1" THEN [ok |-> FALSE, atoms |-> <<>>]
              ELSE compilePrefix(src, i + 1,
                                 [acc EXCEPT ![Len(acc)] = [@ EXCEPT !.q = src[i]]])
    ELSE IF src[i] \in {"(", ")", "["} THEN [ok |-> FALSE, atoms |-> <<>>]
    ELSE compilePrefix(src, i + 1, Append(acc, Atom(src[i], TRUE)))

AtomMatches(a, s, j) ==
    j <= Len(s) /\ (IF a.lit THEN s[j] = a.c ELSE s[j] \notin LineTerminators)

\* the indexes at which atoms k.. can stop when they start at index i of s
RECURSIVE MatchEnds(_, _, _, _)
MatchEnds(atoms, k, s, i) ==
    IF k > Len(atoms) THEN {i}
    ELSE LET a == atoms[k]
             runs == {j \in i..(Len(s) + 1) : \A m \in i..(j - 1) : AtomMatches(a, s, m)}
         IN  CASE a.q = "1" -> IF AtomMatches(a, s, i) THEN MatchEnds(atoms, k + 1, s, i + 1)
                               ELSE {}
               [] a.q = "?" -> UNION {MatchEnds(atoms, k + 1, s, j) : j \in runs \cap {i, i + 1}}
               [] a.q = "*" -> UNION {MatchEnds(atoms, k + 1, s, j) : j \in runs}
               [] OTHER -> UNION {MatchEnds(atoms, k + 1, s, j) : j \in runs \ {i}}

\* ":([^:]+):(.+)$" from index j of s
TailMatches(s, j) ==
    /\ j <= Len(s) /\ s[j] = ":"
    /\ \E c \in (j + 2)..(Len(s) - 1) :
          /\ s[c] = ":"
          /\ \A m \in (j + 1)..(c - 1) : s[m] # ":"
          /\ \A m \in (c + 1)..Len(s) : s[m] \notin LineTerminators

NoMatch == [ok |-> FALSE, name |-> <<>>, id |-> <<>>]

\* str.match(extRegex): ok and the two capture groups
extMatch(atoms, s) ==
    LET ends == {j \in MatchEnds(atoms, 1, s, 1) : TailMatches(s, j)}
    IN  IF ends = {} THEN NoMatch
        ELSE LET j == CHOOSE e \in ends : \A f \in ends : f <= e
                 c == CHOOSE c \in (j + 2)..(Len(s) - 1) :
                         s[c] = ":" /\ \A m \in (j + 1)..(c - 1) : s[m] # ":"
             IN  [ok |-> TRUE, name |-> SubSeq(s, j + 1, c - 1),
                  id |-> SubSeq(s, c + 1, Len(s))]

\* extRegex of a deserialize call: [ok, atoms]
extRegex(cfg) == compilePrefix(escapeDollar(extPrefix(cfg)), 1, <<>>)

---------------------------------------------------------------------------
(* FormData: the list of entries [k, v], v a string or a Blob *)

FDhas(fd, k) == \E i \in 1..Len(fd) : fd[i].k = k

\* formData.get(name): the first entry of that name, or null
FDget(fd, k) ==
    IF FDhas(fd, k)
    THEN fd[CHOOSE i \in 1..Len(fd) : fd[i].k = k /\ \A j \in 1..(i - 1) : fd[j].k # k].v
    ELSE Null

\* formData.set(name, value): replaces the first entry of that name and drops
\* the others, or appends
FDset(fd, k, v) ==
    IF FDhas(fd, k)
    THEN LET first == CHOOSE i \in 1..Len(fd) : fd[i].k = k /\ \A j \in 1..(i - 1) : fd[j].k # k
         IN  SelectSeq([i \in 1..Len(fd) |->
                          IF i = first THEN Entry(k, v)
                          ELSE IF fd[i].k = k THEN Entry(Unset, Null) ELSE fd[i]],
                       LAMBDA e : e.k # Unset)
    ELSE Append(fd, Entry(k, v))

\* Map.prototype.set / get of the holes and storedValues maps
MapSet(m, k, v) == DefineProp(m, k, v)
MapHas(m, k) == HasKey(m, k)
MapGet(m, k) == m[CHOOSE i \in 1..Len(m) : m[i].k = k].v

---------------------------------------------------------------------------
(* serialize.  The traversal threads st = [holes, log, err]: the holes map, *)
(* the calls made to the extensions and to generateDataId, in order, and   *)
(* the error thrown (NoErr while none is).                                 *)

Event(op, ext, arg) == [op |-> op, ext |-> ext, arg |-> arg]

EncStart == [holes |-> <<>>, log |-> <<>>, err |-> NoErr]

\* [BlobExtension, ...(config?.extensions ?? [])]
effectiveExtensions(extensions) == <<BlobExtension>> \o extensions

\* a variant of selectExtension in which the last extension that accepts wins
selectExtensionLast(extensions, data) ==
    IF \E i \in 1..Len(extensions) : canHandle(extensions[i], data)
    THEN CHOOSE i \in 1..Len(extensions) :
            /\ canHandle(extensions[i], data)
            /\ \A j \in (i + 1)..Len(extensions) : ~canHandle(extensions[j], data)
    ELSE 0

\* for (const extension of extensions) if (extension.canHandle(data)) ...:
\* the index of the extension the loop stops at, 0 when it runs to the end
selectExtension(extensions, data) ==
    IF \E i \in 1..Len(extensions) : canHandle(extensions[i], data)
    THEN CHOOSE i \in 1..Len(extensions) :
            /\ canHandle(extensions[i], data)
            /\ \A j \in 1..(i - 1) : ~canHandle(extensions[j], data)
    ELSE 0

\* the canHandle calls the loop makes on data when it stops at index k
canHandleCalls(extensions, k, data) ==
    [i \in 1..(IF k = 0 THEN Len(extensions) ELSE k) |-> Event("canHandle", i, data)]

\* the number of ids minted so far in this call
Minted(st) == Cardinality({i \in 1..Len(st.log) : st.log[i].op = "mint"})

\* holes.set(key, item); return key
setHole(key, item, st) ==
    [v |-> Str(key),
     st |-> [st EXCEPT !.holes = MapSet(@, key, item),
                       !.log = Append(@, Event("mint", 0, item))]]

\* replaceWithHole(extName, item): [v, st], v the key
replaceWithHole(cfg, extName, item, st) ==
    setHole(GET_HOLE_KEY(cfg, extName, generateDataId(cfg, item, Minted(st))), item, st)

\* return replaceWithHole(extension.name, serialized), unless serialize threw
holeOrThrow(cfg, extName, r, st) ==
    IF r.threw THEN [v |-> Undefined, st |-> [st EXCEPT !.err = r.e]]
    ELSE replaceWithHole(cfg, extName, r.v, st)

\* a variant of handleWith that mints the id before serialize is called,
\* from the value itself
handleWithEarlyMint(cfg, extensions, i, data, st) ==
    replaceWithHole(cfg, extensions[i].name, data,
                    [st EXCEPT !.log = @ \o canHandleCalls(extensions, i, data)])

\* the first branch of recursivelyHandle, for data some extension i handles
handleWith(cfg, extensions, i, data, st) ==
    holeOrThrow(cfg, extensions[i].name, extSerialize(extensions[i], data),
                [st EXCEPT !.log = @ \o canHandleCalls(extensions, i, data)
                                     \o <<Event("serialize", i, data)>>])

sConstructor == <<"c", "o", "n", "s", "t", "r", "u", "c", "t", "o", "r">>

\* typeof data === "object" && data.constructor === Object
isPlainObject(data) == data.t = "object" /\ ~HasKey(data.es, sConstructor)

\* recursivelyHandle(data) of serialize: [v, st]; once st.err is set the
\* exception is on its way out and nothing more is done
RECURSIVE encHandle(_, _, _, _)
RECURSIVE encElements(_, _, _, _, _, _)
RECURSIVE encEntries(_, _, _, _, _, _)
\* recursivelyHandle after the extension loop ran to its end on data
encStructure(cfg, extensions, data, st) ==
    IF data.t = "array" THEN encElements(cfg, extensions, data.xs, 1, <<>>, st)
    ELSE IF isPlainObject(data) THEN encEntries(cfg, extensions, data.es, 1, <<>>, st)
    ELSE [v |-> data, st |-> st]

\* recursivelyHandle on a value that is neither undefined nor null, the
\* extension loop stopping at index i
encDispatch(cfg, extensions, i, data, st) ==
    IF i # 0 THEN handleWith(cfg, extensions, i, data, st)
    ELSE encStructure(cfg, extensions, data,
                      [st EXCEPT !.log = @ \o canHandleCalls(extensions, 0, data)])

\* a variant of encHandle that goes into an array or a mapping without
\* offering it to the extensions
encHandleInside(cfg, extensions, data, st) ==
    IF st.err # NoErr THEN [v |-> Undefined, st |-> st]
    ELSE IF data.t \in {"undefined", "null"} THEN [v |-> data, st |-> st]
    ELSE IF data.t \in {"array", "object"} THEN encStructure(cfg, extensions, data, st)
    ELSE encDispatch(cfg, extensions, selectExtension(extensions, data), data, st)

\* a variant of encHandle that offers null and undefined to the extensions
encHandleNoGuard(cfg, extensions, data, st) ==
    IF st.err # NoErr THEN [v |-> Undefined, st |-> st]
    ELSE encDispatch(cfg, extensions, selectExtension(extensions, data), data, st)

encHandle(cfg, extensions, data, st) ==
    IF st.err # NoErr THEN [v |-> Undefined, st |-> st]
    ELSE IF data.t \in {"undefined", "null"} THEN [v |-> data, st |-> st]
    ELSE encDispatch(cfg, extensions, selectExtension(extensions, data), data, st)

\* the callback's result r = [v, st] becomes element i
encElement(cfg, extensions, xs, i, acc, r) ==
    encElements(cfg, extensions, xs, i + 1, Append(acc, r.v), r.st)

\* result[key] = r.v for entry i
encEntry(cfg, extensions, es, i, acc, r) ==
    encEntries(cfg, extensions, es, i + 1, SetProp(acc, es[i].k, r.v), r.st)

\* a variant of encElements that leaves holes and undefined elements out
encElementsDense(cfg, extensions, xs, i, acc, st) ==
    IF st.err # NoErr THEN [v |-> Undefined, st |-> st]
    ELSE IF i > Len(xs) THEN [v |-> Arr(acc), st |-> st]
    ELSE IF xs[i] \in {Hole, Undefined}
         THEN encElements(cfg, extensions, xs, i + 1, acc, st)
    ELSE encElement(cfg, extensions, xs, i, acc, encHandle(cfg, extensions, xs[i], st))

\* data.map(recursivelyHandle): the callback is not called on a hole
encElements(cfg, extensions, xs, i, acc, st) ==
    IF st.err # NoErr THEN [v |-> Undefined, st |-> st]
    ELSE IF i > Len(xs) THEN [v |-> Arr(acc), st |-> st]
    ELSE IF xs[i] = Hole THEN encElements(cfg, extensions, xs, i + 1, Append(acc, Hole), st)
    ELSE encElement(cfg, extensions, xs, i, acc, encHandle(cfg, extensions, xs[i], st))

\* for (const [key, value] of Object.entries(data)) result[key] = recursivelyHandle(value)
encEntries(cfg, extensions, es, i, acc, st) ==
    IF st.err # NoErr THEN [v |-> Undefined, st |-> st]
    ELSE IF i > Len(es) THEN [v |-> Obj(acc), st |-> st]
    ELSE encEntry(cfg, extensions, es, i, acc, encHandle(cfg, extensions, es[i].v, st))

\* a variant of holeEntryValue that stores a string as it is
holeEntryValueRaw(item) == item

\* the entry stored for one hole: a Blob as it is, a string JSON-quoted
holeEntryValue(item) ==
    IF item.t = "blob" THEN item ELSE Str(ToFormString(JSONstringify(item)))

RECURSIVE storeHoles(_, _, _)
storeHoles(fd, holes, i) ==
    IF i > Len(holes) THEN fd
    ELSE storeHoles(FDset(fd, holes[i].k, holeEntryValue(holes[i].v)), holes, i + 1)

\* the FormData built from the traversal's result and holes
buildFormData(cfg, result, holes) ==
    storeHoles(FDset(<<>>, DATA_KEY(cfg), Str(ToFormString(JSONstringify(result)))), holes, 1)

NoOutcome == [err |-> NoErr, result |-> Undefined, table |-> <<>>, log |-> <<>>]

\* serialize(obj, config): [err, result, table, log, formData]; result is the
\* skeleton before it is stringified, table the holes map
Thrown(e, log) ==
    [err |-> e, result |-> Undefined, table |-> <<>>, log |-> log, formData |-> <<>>]

\* serialize from `const result = recursivelyHandle(obj)` on, r = [v, st] that result
serializeResult(cfg, r) ==
    IF r.st.err # NoErr THEN Thrown(r.st.err, r.st.log)
    ELSE [err |-> NoErr, result |-> r.v, table |-> r.st.holes, log |-> r.st.log,
          formData |-> buildFormData(cfg, r.v, r.st.holes)]

\* a variant of serializeValidated that reports the validator's error after
\* the traversal
serializeValidatedLate(obj, cfg, extensions, e) ==
    IF e # NoErr
    THEN Thrown(e, encHandle(cfg, effectiveExtensions(extensions), obj, EncStart).st.log)
    ELSE serializeResult(cfg, encHandle(cfg, effectiveExtensions(extensions), obj, EncStart))

\* serialize after its undefined check, e what _validateExtensions threw
serializeValidated(obj, cfg, extensions, e) ==
    IF e # NoErr THEN Thrown(e, <<>>)
    ELSE serializeResult(cfg, encHandle(cfg, effectiveExtensions(extensions), obj, EncStart))

\* a variant of serialize without the check of obj against undefined
serializeUnchecked(obj, cfg, extensions) ==
    serializeValidated(obj, cfg, extensions, validateExtensions(extensions))

serialize(obj, cfg, extensions) ==
    IF obj = Undefined THEN Thrown(Err("UndefinedInput", <<>>), <<>>)
    ELSE serializeValidated(obj, cfg, extensions, validateExtensions(extensions))

---------------------------------------------------------------------------
(* deserialize *)

\* a variant of extensionsMapGet that finds an extension only among the first
\* two of the effective list
extensionsMapGetShallow(extensions, name) ==
    IF \E i \in 1..Len(extensions) : i <= 2 /\ extensions[i].name = name
    THEN CHOOSE i \in 1..Len(extensions) : i <= 2 /\ extensions[i].name = name
    ELSE 0

\* new Map(extensions.map((ext) => [ext.name, ext])).get(name): a later
\* extension of the same name replaces an earlier one; 0 when there is none
extensionsMapGet(extensions, name) ==
    IF \E i \in 1..Len(extensions) : extensions[i].name = name
    THEN CHOOSE i \in 1..Len(extensions) :
            /\ extensions[i].name = name
            /\ \A j \in (i + 1)..Len(extensions) : extensions[j].name # name
    ELSE 0

\* what the entries loop does with one entry whose key matches extRegex:
\* the value to store, or the error thrown
\* const parsed = JSON.parse(value); if (typeof parsed === "string") ... else throw
storedString(key, p) ==
    IF p.ok /\ p.v.t = "string" THEN [err |-> NoErr, v |-> p.v]
    ELSE [err |-> Err("TypeMismatch", key), v |-> Null]

\* a variant of storedOf that stores a Blob found under another extension's key
storedOfLenient(key, name, v) ==
    IF name = sBlob
    THEN IF v.t = "blob" THEN [err |-> NoErr, v |-> v]
         ELSE [err |-> Err("TypeMismatch", key), v |-> Null]
    ELSE IF v.t = "string" THEN storedString(key, JSONparse(v.s))
         ELSE [err |-> NoErr, v |-> v]

storedOf(key, name, v) ==
    IF name = sBlob
    THEN IF v.t = "blob" THEN [err |-> NoErr, v |-> v]
         ELSE [err |-> Err("TypeMismatch", key), v |-> Null]
    ELSE IF v.t = "string" THEN storedString(key, JSONparse(v.s))
         ELSE [err |-> Err("TypeMismatch", key), v |-> Null]

\* for (const [key, value] of formData.entries()) ...: [err, stored]
RECURSIVE populateStored(_, _, _, _, _)
\* entry i, whose key matches with extension name `name`: r is what storedOf gave
populateOne(fd, dataKey, atoms, i, stored, r) ==
    IF r.err # NoErr THEN [err |-> r.err, stored |-> stored]
    ELSE populateStored(fd, dataKey, atoms, i + 1, MapSet(stored, fd[i].k, r.v))

\* a variant of populateEntry that refuses a Blob under a key that does not match
populateEntryStrict(fd, dataKey, atoms, i, stored, m) ==
    IF ~m.ok
    THEN IF fd[i].v.t = "blob" THEN [err |-> Err("TypeMismatch", fd[i].k), stored |-> stored]
         ELSE populateStored(fd, dataKey, atoms, i + 1, stored)
    ELSE populateOne(fd, dataKey, atoms, i, stored, storedOf(fd[i].k, m.name, fd[i].v))

\* entry i, m = key.match(extRegex)
populateEntry(fd, dataKey, atoms, i, stored, m) ==
    IF ~m.ok THEN populateStored(fd, dataKey, atoms, i + 1, stored)
    ELSE populateOne(fd, dataKey, atoms, i, stored, storedOf(fd[i].k, m.name, fd[i].v))

populateStored(fd, dataKey, atoms, i, stored) ==
    IF i > Len(fd) THEN [err |-> NoErr, stored |-> stored]
    ELSE IF fd[i].k = dataKey THEN populateStored(fd, dataKey, atoms, i + 1, stored)
    ELSE populateEntry(fd, dataKey, atoms, i, stored, extMatch(atoms, fd[i].k))

DecStart == [log |-> <<>>, err |-> NoErr]

\* a variant of deserialized that catches the extension's error and throws
\* one of its own
deserializedWrapped(i, payload, r, st) ==
    [v |-> r.v,
     st |-> [st EXCEPT !.log = Append(@, Event("deserialize", i, payload)),
                       !.err = IF r.threw THEN Err("DeserializeFailed", r.e.arg) ELSE r.e]]

\* return extension.deserialize(stored), r what that call gave
deserialized(i, payload, r, st) ==
    [v |-> r.v,
     st |-> [st EXCEPT !.log = Append(@, Event("deserialize", i, payload)), !.err = r.e]]

\* a variant of lookupToken that looks the payload up first
lookupTokenPayloadFirst(extensions, stored, i, name, token, st) ==
    IF ~MapHas(stored, token)
    THEN [v |-> Undefined, st |-> [st EXCEPT !.err = Err("MissingPayload", token)]]
    ELSE IF i = 0
         THEN [v |-> Undefined, st |-> [st EXCEPT !.err = Err("UnknownExtension", name)]]
    ELSE deserialized(i, MapGet(stored, token),
                      extDeserialize(extensions[i], MapGet(stored, token)), st)

\* the lookups of the string branch, i = extensionsMap.get(name) (0: undefined)
lookupToken(extensions, stored, i, name, token, st) ==
    IF i = 0 THEN [v |-> Undefined, st |-> [st EXCEPT !.err = Err("UnknownExtension", name)]]
    ELSE IF ~MapHas(stored, token)
         THEN [v |-> Undefined, st |-> [st EXCEPT !.err = Err("MissingPayload", token)]]
    ELSE deserialized(i, MapGet(stored, token),
                      extDeserialize(extensions[i], MapGet(stored, token)), st)

\* the string branch of recursivelyHandle for a string that matches extRegex
resolveToken(extensions, stored, data, name, st) ==
    lookupToken(extensions, stored, extensionsMapGet(extensions, name), name, data.s, st)

\* recursivelyHandle(data) of deserialize: [v, st]
RECURSIVE decHandle(_, _, _, _, _)
RECURSIVE decElements(_, _, _, _, _, _, _)
RECURSIVE decEntries(_, _, _, _, _, _, _)
\* recursivelyHandle on a string, m = data.match(extRegex)
decString(extensions, stored, data, m, st) ==
    IF m.ok THEN resolveToken(extensions, stored, data, m.name, st)
    ELSE [v |-> data, st |-> st]

decElement(extensions, atoms, stored, xs, i, acc, r) ==
    decElements(extensions, atoms, stored, xs, i + 1, Append(acc, r.v), r.st)

decEntry(extensions, atoms, stored, es, i, acc, r) ==
    decEntries(extensions, atoms, stored, es, i + 1, SetProp(acc, es[i].k, r.v), r.st)

decHandle(extensions, atoms, stored, data, st) ==
    IF st.err # NoErr THEN [v |-> Undefined, st |-> st]
    ELSE IF data.t = "string" THEN decString(extensions, stored, data, extMatch(atoms, data.s), st)
    ELSE IF data.t = "array" THEN decElements(extensions, atoms, stored, data.xs, 1, <<>>, st)
    ELSE IF data.t \in {"null", "undefined"} THEN [v |-> data, st |-> st]
    ELSE IF data.t = "object" THEN decEntries(extensions, atoms, stored, data.es, 1, <<>>, st)
    ELSE [v |-> data, st |-> st]

decElements(extensions, atoms, stored, xs, i, acc, st) ==
    IF st.err # NoErr THEN [v |-> Undefined, st |-> st]
    ELSE IF i > Len(xs) THEN [v |-> Arr(acc), st |-> st]
    ELSE decElement(extensions, atoms, stored, xs, i, acc,
                    decHandle(extensions, atoms, stored, xs[i], st))

decEntries(extensions, atoms, stored, es, i, acc, st) ==
    IF st.err # NoErr THEN [v |-> Undefined, st |-> st]
    ELSE IF i > Len(es) THEN [v |-> Obj(acc), st |-> st]
    ELSE decEntry(extensions, atoms, stored, es, i, acc,
                  decHandle(extensions, atoms, stored, es[i].v, st))

\* deserialize from `return recursivelyHandle(parsedData)` on, r = [v, st]
decodeResult(stored, r) ==
    [err |-> r.st.err, result |-> r.v, table |-> stored, log |-> r.st.log]

\* a variant of decodeStored that refuses a stored payload whose key names an
\* extension the list does not hold
decodeStoredRegistered(extensions, atoms, parsedData, pop) ==
    IF pop.err # NoErr THEN [NoOutcome EXCEPT !.err = pop.err]
    ELSE IF \E k \in 1..Len(pop.stored) :
               extensionsMapGet(extensions, extMatch(atoms, pop.stored[k].k).name) = 0
    THEN [NoOutcome EXCEPT !.err =
            Err("UnknownExtension",
                extMatch(atoms, pop.stored[CHOOSE k \in 1..Len(pop.stored) :
                    extensionsMapGet(extensions, extMatch(atoms, pop.stored[k].k).name) = 0].k).name)]
    ELSE decodeResult(pop.stored, decHandle(extensions, atoms, pop.stored, parsedData, DecStart))

\* deserialize from the entries loop on, pop what the loop gave
decodeStored(extensions, atoms, parsedData, pop) ==
    IF pop.err # NoErr THEN [NoOutcome EXCEPT !.err = pop.err]
    ELSE decodeResult(pop.stored, decHandle(extensions, atoms, pop.stored, parsedData, DecStart))

\* a variant of decodeParsed that reads the entries before it reports the
\* text that does not parse
decodeParsedLate(fd, dataKey, extensions, atoms, dataString, parsed) ==
    IF populateStored(fd, dataKey, atoms, 1, <<>>).err # NoErr
    THEN [NoOutcome EXCEPT !.err = populateStored(fd, dataKey, atoms, 1, <<>>).err]
    ELSE IF ~parsed.ok THEN [NoOutcome EXCEPT !.err = Err("MalformedContainer", dataString)]
    ELSE decodeStored(extensions, atoms, parsed.v,
                      populateStored(fd, dataKey, atoms, 1, <<>>))

\* deserialize from JSON.parse(dataString) on, parsed what it gave
decodeParsed(fd, dataKey, extensions, atoms, dataString, parsed) ==
    IF ~parsed.ok THEN [NoOutcome EXCEPT !.err = Err("MalformedContainer", dataString)]
    ELSE decodeStored(extensions, atoms, parsed.v,
                      populateStored(fd, dataKey, atoms, 1, <<>>))

\* deserialize from formData.get(dataKey) on
decodeData(fd, dataKey, extensions, atoms, dataString) ==
    IF dataString.t # "string" THEN [NoOutcome EXCEPT !.err = Err("MalformedContainer", dataKey)]
    ELSE decodeParsed(fd, dataKey, extensions, atoms, dataString.s, JSONparse(dataString.s))

\* deserialize from new RegExp(...) on, rx what it gave
decodeWith(fd, cfg, extensions, rx) ==
    IF ~rx.ok THEN [NoOutcome EXCEPT !.err = Err("SyntaxError", extPrefix(cfg))]
    ELSE decodeData(fd, DATA_KEY(cfg), extensions, rx.atoms, FDget(fd, DATA_KEY(cfg)))

\* a variant of decodeValidated that looks for the data entry before it
\* reports the validator's error
decodeValidatedLate(fd, cfg, extensions, e) ==
    IF FDget(fd, DATA_KEY(cfg)).t # "string"
    THEN [NoOutcome EXCEPT !.err = Err("MalformedContainer", DATA_KEY(cfg))]
    ELSE IF e # NoErr THEN [NoOutcome EXCEPT !.err = e]
    ELSE decodeWith(fd, cfg, effectiveExtensions(extensions), extRegex(cfg))

\* deserialize after e = what _validateExtensions threw
decodeValidated(fd, cfg, extensions, e) ==
    IF e # NoErr THEN [NoOutcome EXCEPT !.err = e]
    ELSE decodeWith(fd, cfg, effectiveExtensions(extensions), extRegex(cfg))

\* deserialize(formData, config): [err, result, table, log]; table is storedValues
deserialize(fd, cfg, extensions) ==
    decodeValidated(fd, cfg, extensions, validateExtensions(extensions))

---------------------------------------------------------------------------
(* The inputs the callers of the model draw from *)

MaxArrayLen == 2
MaxExtensions == 2

sA == <<"a">>
sB == <<"b">>
sQuoted == <<"\"", "\\", "n">>
sColon == <<"a", ":", "b">>
sTokDate ==
    <<"$", "e", "x", "t", ":", "d", "a", "t", "e", ":", "c", "u", "s", "t", "o", "m", "-", "0">>
sTokOther == <<"$", "e", "x", "t", ":", "z", ":", "1">>
sBytes == <<"h", "i">>

SeqsUpTo(S, n) == UNION {[1..m -> S] : m \in 0..n}

Primitives ==
    {Null, Bool(TRUE), Num(0), Num(42), Num(-7), NaN, Infinity, NegZero,
     Str(<<>>), Str(sA), Str(sQuoted), Str(sTokDate), Str(sTokOther)}

Exotics ==
    {Blob(sBytes), DateV(5), RegExpV(sA)}
    \cup {SymbolV(d) : d \in {<<>>, sA, sQuoted, sColon}}

ArrayItems == {Undefined, Hole, Blob(sBytes), DateV(5)}

PropValues == {Undefined, Num(42), Blob(sBytes), DateV(5)}

Arrays == {Arr(xs) : xs \in SeqsUpTo(ArrayItems, MaxArrayLen)}

Objects ==
    {Obj(<<>>)}
    \cup {Obj(<<Entry(k, x)>>) : k \in {sA, sProto}, x \in PropValues}
    \cup {Obj(<<Entry(k[1], x), Entry(k[2], y)>>) :
            k \in {<<sA, sB>>, <<sB, sA>>, <<sA, sProto>>}, x \in PropValues, y \in PropValues}

Nested ==
    {Arr(<<x>>) : x \in {Obj(<<Entry(sA, Undefined)>>), Obj(<<Entry(sA, Blob(sBytes))>>),
                         Arr(<<DateV(5), Undefined>>)}}
    \cup {Obj(<<Entry(sB, x), Entry(sA, Num(0))>>) :
            x \in {Obj(<<Entry(sA, Undefined), Entry(sB, DateV(5))>>),
                   Arr(<<Blob(sBytes), Blob(sBytes)>>),
                   Arr(<<Str(sTokDate), DateV(5)>>)}}
    \cup {Obj(<<Entry(sB, Arr(<<DateV(5), Undefined>>)), Entry(sA, Blob(sBytes))>>)}

Values == {Undefined} \cup Primitives \cup Exotics \cup Arrays \cup Objects \cup Nested

\* a caller's extension that takes the built-in extension's name
callerBlobExtension == Ext(sBlob, "symbol")

ExtPool ==
    {DateExtension, mockSecondDateExtension, SymbolExtension, regexpExtension,
     anyExtension, callerBlobExtension}

ExtLists == SeqsUpTo(ExtPool, MaxExtensions)

Configs ==
    [data : {Unset}, extension : {Unset}, generateDataId : {"default", "counter", "constant"}]

Reverse(q) == [i \in 1..Len(q) |-> q[Len(q) + 1 - i]]

\* the lists a container encoded with extensions is decoded with
DecodeLists(extensions) ==
    {extensions, Reverse(extensions), <<>>, <<DateExtension>>, <<callerBlobExtension>>}

---------------------------------------------------------------------------
(* The pipeline: serialize(value, config), then deserialize of the         *)
(* FormData it returned, with the same referencePrefix and generateDataId  *)
(* and some extension list.                                                *)

Init ==
    /\ pc = "start"
    /\ value \in Values
    /\ config \in Configs
    /\ exts \in ExtLists
    /\ enc = NoOutcome
    /\ formData = <<>>
    /\ dexts = <<>>
    /\ dec = NoOutcome

\* the caller keeps what serialize returned or threw
Returns(r) ==
    /\ enc' = [err |-> r.err, result |-> r.result, table |-> r.table, log |-> r.log]
    /\ formData' = r.formData
    /\ pc' = IF r.err = NoErr THEN "encoded" ELSE "failed"

Serialize ==
    /\ pc = "start"
    /\ Returns(serialize(value, config, exts))
    /\ UNCHANGED <<value, config, exts, dexts, dec>>

Deserialize ==
    /\ pc = "encoded"
    /\ \E d \in DecodeLists(exts) :
          /\ dexts' = d
          /\ dec' = deserialize(formData, config, d)
    /\ pc' = "decoded"
    /\ UNCHANGED <<value, config, exts, enc, formData>>

Next == Serialize \/ Deserialize

Spec == Init /\ [][Next]_vars

---------------------------------------------------------------------------
(* _validateExtensions on its own, on lists whose names cover every check  *)

NamePool ==
    {<<>>, <<" ">>, sColon, <<" ", ":">>, <<"$", "x">>, <<"$", ":">>, sRef,
     <<"e", "x", "t", "r", "a">>, <<"r", "e">>, sDate, sSymbol, sBlob}

\* long enough for a repeated name to stand before a third, invalid one
MaxNamed == 3

NamedLists == SeqsUpTo({Ext(n, "date") : n \in NamePool}, MaxNamed)

InitValidate ==
    /\ pc = "validate"
    /\ value = Undefined
    /\ config = [data |-> Unset, extension |-> Unset, generateDataId |-> "default"]
    /\ exts \in NamedLists
    /\ enc = NoOutcome
    /\ formData = <<>>
    /\ dexts = <<>>
    /\ dec = NoOutcome

\* _validateExtensions(exts): enc.err is what it threw
Validate ==
    /\ pc = "validate"
    /\ enc' = [NoOutcome EXCEPT !.err = validateExtensions(exts)]
    /\ pc' = "validated"
    /\ UNCHANGED <<value, config, exts, formData, dexts, dec>>

NextValidate == Validate

SpecValidate == InitValidate /\ [][NextValidate]_vars

---------------------------------------------------------------------------
(* The pipeline under caller-chosen referencePrefix and generateDataId,   *)
(* with extension lists that hold invalid names and throwing extensions    *)

sK == <<"k">>
sP == <<"p">>
sDollarX == <<"$", "x">>
sAPlus == <<"a", "+">>
sADotB == <<"a", ".", "b">>
sParen == <<"(">>
sAxbTok == <<"a", "x", "b", ":", "d", ":", "1">>

PrefixedConfigs ==
    [data : {Unset, sK},
     extension : {Unset, sP, sDollarX, sAPlus, sADotB, sParen},
     generateDataId : {"default", "colon", "newline"}]

PrefixedValues ==
    {Undefined, Null, Str(sA), Str(sAxbTok), DateV(5), InvalidDate, SymbolV(sColon),
     Arr(<<Blob(sBytes), DateV(5)>>), Arr(<<DateV(5), InvalidDate>>),
     Obj(<<Entry(sA, DateV(5)), Entry(sB, Arr(<<Null, Num(42)>>))>>),
     Arr(<<Undefined, Null, DateV(5)>>)}

PrefixedExtPool ==
    {DateExtension, brokenExtension, SymbolExtension, nullableExtension,
     Ext(sK, "date"), Ext(sP, "symbol"), Ext(sDollarX, "date"), Ext(sColon, "date")}

InitPrefixed ==
    /\ pc = "start"
    /\ value \in PrefixedValues
    /\ config \in PrefixedConfigs
    /\ exts \in SeqsUpTo(PrefixedExtPool, MaxExtensions)
    /\ enc = NoOutcome
    /\ formData = <<>>
    /\ dexts = <<>>
    /\ dec = NoOutcome

SpecPrefixed == InitPrefixed /\ [][Next]_vars

---------------------------------------------------------------------------
(* deserialize on a FormData received from elsewhere: a data entry (or     *)
(* none), then entries under placeholder keys, well typed or not, and      *)
(* entries under keys of no concern to the serializer                      *)

MaxSideEntries == 2

sM == <<"m">>
sOne == <<"1">>

ReceivedConfigs ==
    {[data |-> Unset, extension |-> Unset, generateDataId |-> "default"],
     [data |-> sK, extension |-> sP, generateDataId |-> "default"]}

\* what stands under the data key: nothing, a Blob, or a text
DataParts(cfg) ==
    {<<>>, <<Entry(DATA_KEY(cfg), Blob(sBytes))>>}
    \cup {<<Entry(DATA_KEY(cfg), Str(text))>> :
            text \in {<<"{">>,
                      JSONstringify(Str(sA)),
                      JSONstringify(Str(GET_HOLE_KEY(cfg, sBlob, sOne))),
                      JSONstringify(Arr(<<Str(GET_HOLE_KEY(cfg, sDate, sOne)),
                                          Str(GET_HOLE_KEY(cfg, sAny, sOne))>>))}}

SideEntries(cfg) ==
    {Entry(GET_HOLE_KEY(cfg, sBlob, sOne), v) : v \in {Blob(sBytes), Str(sA)}}
    \cup {Entry(GET_HOLE_KEY(cfg, sDate, sOne), v) :
             v \in {Str(JSONstringify(Str(toISOString(5)))), Blob(sBytes),
                    Str(<<"5">>), Str(toISOString(5))}}
    \cup {Entry(GET_HOLE_KEY(cfg, sAny, sOne), Str(JSONstringify(Str(text)))) :
             text \in {<<"7">>, <<"{">>}}
    \cup {Entry(sM, Blob(sBytes)), Entry(sM, Str(<<"{">>)),
          Entry(extPrefix(cfg) \o <<":">> \o sBlob \o <<":">>, Str(sA))}

Containers(cfg) ==
    {d \o side : d \in DataParts(cfg), side \in SeqsUpTo(SideEntries(cfg), MaxSideEntries)}

ReceivedLists ==
    {<<>>, <<DateExtension>>, <<DateExtension, anyExtension>>, <<anyExtension, brokenExtension>>,
     <<DateExtension, DateExtension>>, <<Ext(sColon, "date")>>}

InitReceived ==
    /\ pc = "received"
    /\ value = Undefined
    /\ config \in ReceivedConfigs
    /\ exts = <<>>
    /\ enc = NoOutcome
    /\ formData \in Containers(config)
    /\ dexts \in ReceivedLists
    /\ dec = NoOutcome

\* deserialize(formData, { ...config, extensions: dexts })
DeserializeReceived ==
    /\ pc = "received"
    /\ dec' = deserialize(formData, config, dexts)
    /\ pc' = "decoded"
    /\ UNCHANGED <<value, config, exts, enc, formData, dexts>>

NextReceived == DeserializeReceived

SpecReceived == InitReceived /\ [][NextReceived]_vars

---------------------------------------------------------------------------
(* Vocabulary of the properties *)

ValidationErrors == {"InvalidExtensionName", "ReservedPrefix", "DuplicateExtensionName"}

\* the indexes of the extensions of a list that accept a value
Handlers(extensions, x) == {i \in 1..Len(extensions) : canHandle(extensions[i], x)}

Least(S) == CHOOSE i \in S : \A j \in S : i <= j

Names(extensions) == {extensions[i].name : i \in 1..Len(extensions)}

\* the events of a log made by one operation
EventsOf(log, op) == SelectSeq(log, LAMBDA e : e.op = op)

\* a value and every value inside it
RECURSIVE Parts(_)
Parts(v) ==
    {v} \cup (CASE v.t = "array" -> UNION {Parts(v.xs[i]) : i \in 1..Len(v.xs)}
                [] v.t = "object" -> UNION {Parts(v.es[i].v) : i \in 1..Len(v.es)}
                [] OTHER -> {})

\* built only from strings, numbers, booleans, null, arrays and plain mappings
IsPlainData(v) ==
    \A x \in Parts(v) : x.t \in {"null", "boolean", "number", "string", "array", "object"}

\* the skeleton as the container holds it under the data key
Skeleton == JSONparse(FDget(formData, DATA_KEY(config)).s).v

\* the pairs <<x, y>> of a value and what stands at its place in a second
\* value of the same shape
RECURSIVE Pairs(_, _)
Pairs(x, y) ==
    {<<x, y>>}
    \cup (IF x.t = "array" /\ y.t = "array" /\ Len(x.xs) = Len(y.xs)
          THEN UNION {Pairs(x.xs[i], y.xs[i]) : i \in 1..Len(x.xs)}
          ELSE IF x.t = "object" /\ y.t = "object"
          THEN UNION {Pairs(x.es[i].v, MapGet(y.es, x.es[i].k)) :
                        i \in {j \in 1..Len(x.es) : HasKey(y.es, x.es[j].k)}}
          ELSE {})

\* the strings of a skeleton in the order decode's traversal meets them
RECURSIVE StringsOf(_)
StringsOf(v) ==
    CASE v.t = "string" -> <<v.s>>
      [] v.t = "array" -> Concat([i \in 1..Len(v.xs) |-> StringsOf(v.xs[i])])
      [] v.t = "object" -> Concat([i \in 1..Len(v.es) |-> StringsOf(v.es[i].v)])
      [] OTHER -> <<>>

\* the capture groups of a string read as a placeholder token
TokenOf(str) == extMatch(extRegex(config).atoms, str)

\* the binary blobs of a value, each with the path that leads to it
RECURSIVE BlobsAt(_, _)
BlobsAt(v, path) ==
    CASE v.t = "blob" -> {<<path, v>>}
      [] v.t = "array" ->
            UNION {BlobsAt(v.xs[i], Append(path, <<"#">> \o NatToChars(i))) : i \in 1..Len(v.xs)}
      [] v.t = "object" ->
            UNION {BlobsAt(v.es[i].v, Append(path, v.es[i].k)) : i \in 1..Len(v.es)}
      [] OTHER -> {}

\* serialize was called and got past its validation
EncodeValidated == pc # "start" /\ enc.err.kind \notin ValidationErrors \cup {"UndefinedInput"}

\* deserialize was called and got past its validation
DecodeValidated == pc = "decoded" /\ dec.err.kind \notin ValidationErrors

---------------------------------------------------------------------------
(* Properties of the pipeline (Spec) and of the validator (SpecValidate)   *)

\* C1: round-trip identity.  For every value built only from strings,
\* numbers, booleans, null, arrays and plain mappings, and every valid
\* extension list none of whose extensions handles a part of the value,
\* deserialize(serialize(v, exts), exts) succeeds and is deeply equal to v.
C1_RoundTripIdentity ==
    (/\ pc = "decoded" /\ dexts = exts
     /\ IsPlainData(value)
     /\ \A x \in Parts(value) : Handlers(effectiveExtensions(exts), x) = {})
    => (dec.err = NoErr /\ dec.result = value)

\* C2: textual payload fidelity.  When a caller extension E, not named like
\* the built-in blob extension, is the first to handle the value (serialize
\* called E.serialize on it) and E.serialize returns a string s, deserialize with the same list calls
\* E.deserialize once, with exactly s, and returns (or throws) what that call
\* returns (or throws).
C2_TextualPayloadFidelity ==
    (/\ pc = "decoded" /\ dexts = exts
     /\ Len(EventsOf(enc.log, "serialize")) = 1
     /\ EventsOf(enc.log, "serialize")[1].arg = value
     /\ EventsOf(enc.log, "serialize")[1].ext > 1
     /\ effectiveExtensions(exts)[EventsOf(enc.log, "serialize")[1].ext].name # sBlob
     /\ extSerialize(effectiveExtensions(exts)[EventsOf(enc.log, "serialize")[1].ext],
                     value).v.t = "string")
    => LET i == EventsOf(enc.log, "serialize")[1].ext
           E == effectiveExtensions(exts)[i]
           s == extSerialize(E, value).v
       IN  /\ dec.log = <<Event("deserialize", i, s)>>
           /\ dec.err = extDeserialize(E, s).e
           /\ dec.result = extDeserialize(E, s).v

\* a symbol whose description holds a double quote and a backslash went
\* through the symbol extension and came back
C2_Witness ==
    /\ pc = "decoded" /\ exts = <<SymbolExtension>> /\ dexts = exts
    /\ value = SymbolV(sQuoted)
    /\ dec.log = <<Event("deserialize", 2, Str(sQuoted))>>
    /\ dec.result = SymbolV(sQuoted)

\* C3: built-in blob handling.  For every caller list, every binary blob of
\* the value is encoded by the implicit blob extension (one serialize call
\* of the first extension per blob, the blob stored verbatim), and decoding
\* with any valid list returns the same blob at the same position.
C3_BuiltInBlobHandling ==
    (DecodeValidated /\ BlobsAt(value, <<>>) # {})
    => /\ \A k \in 1..Len(enc.log) :
             (enc.log[k].op = "serialize" /\ enc.log[k].arg.t = "blob") => enc.log[k].ext = 1
       /\ \A b \in BlobsAt(value, <<>>) :
             \E k \in 1..Len(formData) :
                /\ formData[k].v = b[2]
                /\ TokenOf(formData[k].k).ok /\ TokenOf(formData[k].k).name = sBlob
       /\ dec.err = NoErr
       /\ BlobsAt(value, <<>>) \subseteq BlobsAt(dec.result, <<>>)

\* C4: binary payload of a caller extension.  When the one caller extension
\* E handles the value and its serialize returns a binary payload b, b is
\* stored verbatim under E's token and deserialize with [E] hands b to
\* E.deserialize and returns what it returns.
C4_BinaryPayload ==
    (/\ pc = "decoded" /\ Len(exts) = 1 /\ dexts = exts
     /\ Handlers(effectiveExtensions(exts), value) = {2}
     /\ extSerialize(exts[1], value).v.t = "blob")
    => LET b == extSerialize(exts[1], value).v
       IN  /\ enc.result.t = "string"
           /\ TokenOf(enc.result.s).name = exts[1].name
           /\ FDget(formData, enc.result.s) = b
           /\ dec.log = <<Event("deserialize", 2, b)>>
           /\ dec.err = extDeserialize(exts[1], b).e
           /\ dec.result = extDeserialize(exts[1], b).v

\* C5: first match wins.  Every serialize call made while encoding is made
\* on the earliest extension of the list that accepts the value, so no later
\* extension is called for it, and the token standing at the value's place
\* in the skeleton carries that extension's name; in particular when several
\* extensions accept the value.
C5_FirstMatchWins ==
    /\ \A k \in 1..Len(enc.log) :
          enc.log[k].op = "serialize"
          => enc.log[k].ext = Least(Handlers(effectiveExtensions(exts), enc.log[k].arg))
    /\ pc \in {"encoded", "decoded"}
       => \A p \in Pairs(value, Skeleton) :
             (p[1].t \notin {"undefined", "null", "hole"}
              /\ Handlers(effectiveExtensions(exts), p[1]) # {})
             => /\ p[2].t = "string"
                /\ TokenOf(p[2].s).ok
                /\ TokenOf(p[2].s).name
                     = effectiveExtensions(exts)[Least(Handlers(effectiveExtensions(exts), p[1]))].name

\* a value two differently named extensions accept was encoded
C5_Witness ==
    /\ pc = "encoded"
    /\ Cardinality({effectiveExtensions(exts)[i].name :
                       i \in Handlers(effectiveExtensions(exts), value)}) >= 2
    /\ Len(EventsOf(enc.log, "serialize")) = 1
    /\ enc.result.t = "string"

\* what a property's value x is kept as at its place y of the skeleton
KeptAs(x, y) ==
    CASE x.t \in {"null", "boolean", "number", "string"} -> y = x
      [] x.t \in {"array", "object"} -> y.t \in {x.t, "string"}
      [] OTHER -> y.t = "string"

\* a mapping x with an absent-valued key, against the mapping y at its place
Omits(x, y) ==
    \A i \in 1..Len(x.es) :
        IF x.es[i].v = Undefined THEN ~HasKey(y.es, x.es[i].k)
        ELSE HasKey(y.es, x.es[i].k) /\ KeptAs(x.es[i].v, MapGet(y.es, x.es[i].k))

\* C6: omission law.  For every mapping of the value, at any depth, that
\* has a key whose value is undefined, the skeleton has no such key while
\* all other keys keep their encoded values, and the decoded value has no
\* such key either.
C6_OmissionLaw ==
    /\ pc \in {"encoded", "decoded"}
       => \A p \in Pairs(value, Skeleton) :
             (/\ p[1].t = "object" /\ p[2].t = "object"
              /\ \E i \in 1..Len(p[1].es) : p[1].es[i].v = Undefined)
             => Omits(p[1], p[2])
    /\ (pc = "decoded" /\ dec.err = NoErr)
       => \A p \in Pairs(value, dec.result) :
             (p[1].t = "object" /\ p[2].t = "object")
             => \A i \in 1..Len(p[1].es) :
                   p[1].es[i].v = Undefined => ~HasKey(p[2].es, p[1].es[i].k)

\* C7: missing-extension failure.  If a caller extension E handled a part
\* of the value while encoding and the list given to deserialize holds no
\* extension named E.name, deserialize fails with UnknownExtension carrying
\* E.name.
C7_MissingExtensionFailure ==
    DecodeValidated
    => \A k \in 1..Len(enc.log) :
          (/\ enc.log[k].op = "serialize" /\ enc.log[k].ext > 1
           /\ effectiveExtensions(exts)[enc.log[k].ext].name \notin Names(dexts))
          => dec.err = Err("UnknownExtension", effectiveExtensions(exts)[enc.log[k].ext].name)

\* the placeholder tokens of the skeleton in the order the traversal meets them
Tokens == SelectSeq(StringsOf(Skeleton), LAMBDA str : TokenOf(str).ok)

\* the traversal of deserialize began: no error was thrown before it
TraversalBegan ==
    DecodeValidated /\ dec.err.kind \notin {"SyntaxError", "MalformedContainer", "TypeMismatch"}

C9_NoCollidingNames ==
    /\ EncodeValidated
       => \A i, j \in 1..Len(effectiveExtensions(exts)) :
             effectiveExtensions(exts)[i].name = effectiveExtensions(exts)[j].name => i = j
    /\ DecodeValidated
       => \A i, j \in 1..Len(effectiveExtensions(dexts)) :
             effectiveExtensions(dexts)[i].name = effectiveExtensions(dexts)[j].name => i = j

\* the conditions of the validator on one name, stated on the name's characters
HasDelimiter(name) == \E i \in 1..Len(name) : name[i] = ":"
IsBlank(name) == \A i \in 1..Len(name) : name[i] \in {" ", "\t", "\n", "\r"}
IsReserved(name) ==
    \E p \in {<<"$">>, <<"r", "e", "f">>, <<"e", "x", "t">>} :
        Len(p) <= Len(name) /\ \A i \in 1..Len(p) : name[i] = p[i]

\* the extensions of a list the validator has to refuse
Offenders(extensions) ==
    {i \in 1..Len(extensions) :
        \/ HasDelimiter(extensions[i].name) \/ IsBlank(extensions[i].name)
        \/ IsReserved(extensions[i].name)
        \/ \E j \in 1..(i - 1) : extensions[j].name = extensions[i].name}

\* C10: validator acceptance.  _validateExtensions succeeds if and only if
\* no name holds ":", is empty or blank, starts with "$", "ref" or "ext", or
\* repeats the name of an earlier extension; otherwise it fails on the first
\* extension at fault with InvalidExtensionName (":" or blank),
\* ReservedPrefix or DuplicateExtensionName, in that order of precedence.
\* The empty list is accepted.
C10_ValidatorAcceptance ==
    pc = "validated"
    => IF Offenders(exts) = {} THEN enc.err = NoErr
       ELSE LET name == exts[Least(Offenders(exts))].name
            IN  enc.err = Err(IF HasDelimiter(name) \/ IsBlank(name) THEN "InvalidExtensionName"
                              ELSE IF IsReserved(name) THEN "ReservedPrefix"
                              ELSE "DuplicateExtensionName", name)

\* a list refused for its second extension, which repeats the first one's name
C10_Witness ==
    /\ pc = "validated" /\ Len(exts) = 2
    /\ Offenders(exts) = {2}
    /\ enc.err.kind = "DuplicateExtensionName"

\* C11: reserved prefixes follow the configuration.  Whatever data key and
\* placeholder prefix are in effect, default or the caller's, a list whose
\* one extension has a name that starts with the data key in effect or with
\* the placeholder prefix in effect (and is otherwise well formed) is refused
\* with ReservedPrefix.
C11_ReservedPrefixFollowsConfig ==
    (/\ pc # "start" /\ value # Undefined
     /\ Len(exts) = 1
     /\ ~HasDelimiter(exts[1].name) /\ ~IsBlank(exts[1].name)
     /\ \/ StartsWith(exts[1].name, DATA_KEY(config))
        \/ StartsWith(exts[1].name, extPrefix(config)))
    => enc.err = Err("ReservedPrefix", exts[1].name)

\* C12: validation precedes traversal in serialize.  Whenever the caller's
\* list is one the validator refuses, serialize of any value but undefined
\* (null and values without a handled leaf included) fails with the
\* validator's error for the first extension at fault, and before that no
\* canHandle or serialize was called, no id was minted, and no FormData is
\* returned.
C12_ValidationPrecedesTraversal ==
    (pc # "start" /\ value # Undefined /\ Offenders(exts) # {})
    => /\ pc = "failed"
       /\ enc.err.kind \in ValidationErrors
       /\ enc.err.arg = exts[Least(Offenders(exts))].name
       /\ enc.log = <<>> /\ enc.table = <<>> /\ enc.result = Undefined
       /\ formData = <<>>

\* a date was handed over with a list whose first extension handles dates and
\* whose second one has a ":" in its name
C12_Witness ==
    /\ pc = "failed" /\ value = DateV(5)
    /\ Len(exts) = 2 /\ exts[1] = DateExtension /\ Offenders(exts) = {2}
    /\ enc.err.kind = "InvalidExtensionName"
    /\ enc.log = <<>>

\* the text under the data key of the container, Unset when there is no
\* entry under it or the first such entry is not a text
DataText ==
    IF \E i \in 1..Len(formData) : formData[i].k = DATA_KEY(config)
    THEN LET v == formData[Least({i \in 1..Len(formData) : formData[i].k = DATA_KEY(config)})].v
         IN  IF v.t = "string" THEN v.s ELSE Unset
    ELSE Unset

\* C13: validation precedes container inspection in deserialize.  When the
\* caller's list is one the validator refuses, deserialize fails with the
\* validator's error for the first extension at fault whatever the container
\* is (empty, without data entry, with an unparsable one), and no payload is
\* read and no extension called; MalformedContainer is reported only when
\* the list is valid.
C13_ValidationPrecedesInspection ==
    pc = "decoded"
    => /\ Offenders(dexts) # {}
          => /\ dec.err.kind \in ValidationErrors
             /\ dec.err.arg = dexts[Least(Offenders(dexts))].name
             /\ dec.result = Undefined /\ dec.table = <<>> /\ dec.log = <<>>
       /\ dec.err.kind = "MalformedContainer" => Offenders(dexts) = {}

\* an empty container was decoded with a list that repeats a name
C13_Witness ==
    /\ pc = "decoded" /\ formData = <<>>
    /\ Offenders(dexts) = {2}
    /\ dec.err.kind = "DuplicateExtensionName"

\* C14: UndefinedInput.  With a list the validator accepts, serialize fails
\* with UndefinedInput if and only if the value handed over is undefined
\* itself; undefined inside an array or a mapping never raises it, and when
\* it is raised nothing was traversed and no FormData is returned.
C14_UndefinedInput ==
    (pc # "start" /\ Offenders(exts) = {})
    => /\ enc.err.kind = "UndefinedInput" <=> value = Undefined
       /\ enc.err.kind = "UndefinedInput"
          => (pc = "failed" /\ formData = <<>> /\ enc.log = <<>> /\ enc.table = <<>>)
       /\ (\E x \in Parts(value) \ {value} : x = Undefined) => enc.err.kind # "UndefinedInput"

\* undefined was handed over together with a date extension
C14_Witness ==
    /\ pc = "failed" /\ value = Undefined /\ exts = <<DateExtension>>
    /\ enc.err = Err("UndefinedInput", <<>>)

\* the literal form prefix:name:id of a placeholder token, name non-empty and
\* free of ":", id non-empty: [ok, name, id]
TokenForm(prefix, str) ==
    LET n == Len(prefix) + 1
        ends == {c \in (n + 2)..(Len(str) - 1) :
                    str[c] = ":" /\ \A m \in (n + 1)..(c - 1) : str[m] # ":"}
    IN  IF Len(str) > n /\ SubSeq(str, 1, n) = prefix \o <<":">> /\ ends # {}
        THEN [ok |-> TRUE, name |-> SubSeq(str, n + 1, Least(ends) - 1),
              id |-> SubSeq(str, Least(ends) + 1, Len(str))]
        ELSE [ok |-> FALSE, name |-> <<>>, id |-> <<>>]

\* the placeholder prefix in effect
PrefixInEffect == IF config.extension = Unset THEN <<"$", "e", "x", "t">> ELSE config.extension

\* a container entry under a placeholder key whose value is not of the kind
\* the key's extension name calls for
IllTyped(e) ==
    /\ e.k # DATA_KEY(config)
    /\ TokenForm(PrefixInEffect, e.k).ok
    /\ IF TokenForm(PrefixInEffect, e.k).name = <<"b", "l", "o", "b">> THEN e.v.t = "string"
       ELSE \/ e.v.t = "blob"
            \/ ~JSONparse(e.v.s).ok
            \/ JSONparse(e.v.s).v.t # "string"

\* C15: MalformedContainer.  With a list the validator accepts, deserialize
\* fails with MalformedContainer when the container has no entry under the
\* data key, when that entry is not a text, or when the text does not parse;
\* the failure comes before any other entry is read and before any
\* extension is called, also when the container holds ill-typed entries.
C15_MalformedContainer ==
    (/\ pc = "decoded" /\ Offenders(dexts) = {}
     /\ (DataText = Unset \/ ~JSONparse(DataText).ok))
    => /\ dec.err.kind = "MalformedContainer"
       /\ dec.result = Undefined /\ dec.table = <<>> /\ dec.log = <<>>

\* the text under the data key does not parse and the first entry after it is
\* a text under a token of the blob extension
C15_Witness ==
    /\ pc = "decoded" /\ Offenders(dexts) = {}
    /\ DataText = <<"{">>
    /\ Len(formData) >= 2 /\ IllTyped(formData[2])
    /\ dec.err.kind = "MalformedContainer"

Unrelated(e) == e.k # DATA_KEY(config) /\ ~TokenForm(PrefixInEffect, e.k).ok

\* the container without its unrelated entries
Related(fd) == SelectSeq(fd, LAMBDA e : ~Unrelated(e))

\* C17: unrelated entries are ignored.  The outcome of deserialize on a
\* container, the value returned or the error thrown, the payloads read and
\* the extension calls made, is the outcome of deserialize on the same
\* container without the entries whose keys are neither the data key nor of
\* the form of a placeholder token, whatever texts or Blobs they hold.
C17_UnrelatedEntriesIgnored ==
    pc = "decoded" => dec = deserialize(Related(formData), config, dexts)

\* a container with a Blob and an unparsable text under unrelated keys was
\* decoded to its value
C17_Witness ==
    /\ pc = "decoded" /\ dec.err = NoErr /\ dec.result = Str(<<"a">>)
    /\ Len(formData) = 3 /\ Len(Related(formData)) = 1
    /\ formData[2].v.t = "blob" /\ formData[3] = Entry(<<"m">>, Str(<<"{">>))

\* C18: extension errors propagate unchanged.  If the serialize of the
\* extension selected for a value throws e, serialize fails with exactly e,
\* returns no FormData and calls nothing after it; if the deserialize of the
\* extension resolved for a token throws e, deserialize fails with exactly e,
\* returns no value and calls nothing after it; however many values or
\* tokens were processed before.
C18_ExtensionErrorsPropagate ==
    /\ \A k \in 1..Len(enc.log) :
          (/\ enc.log[k].op = "serialize"
           /\ extSerialize(effectiveExtensions(exts)[enc.log[k].ext], enc.log[k].arg).threw)
          => /\ enc.err = extSerialize(effectiveExtensions(exts)[enc.log[k].ext], enc.log[k].arg).e
             /\ pc = "failed" /\ formData = <<>> /\ enc.result = Undefined
             /\ k = Len(enc.log)
    /\ \A k \in 1..Len(dec.log) :
          extDeserialize(effectiveExtensions(dexts)[dec.log[k].ext], dec.log[k].arg).threw
          => /\ dec.err = extDeserialize(effectiveExtensions(dexts)[dec.log[k].ext], dec.log[k].arg).e
             /\ dec.result = Undefined
             /\ k = Len(dec.log)

\* the token of a Blob was resolved, then the deserialize of the extension
\* resolved for the second token threw
C18_Witness ==
    /\ pc = "decoded" /\ Len(dec.log) = 2
    /\ dec.log[1].arg.t = "blob"
    /\ extDeserialize(effectiveExtensions(dexts)[dec.log[2].ext], dec.log[2].arg).threw
    /\ dec.err.kind = "ExtensionError"

\* the elements of a sequence
Range(q) == {q[i] : i \in 1..Len(q)}

\* C19: the side table matches the handled values.  When generateDataId
\* returns pairwise distinct ids within the call, the FormData returned by
\* serialize holds exactly one entry under the data key and exactly one
\* further entry per value handled by an extension, each under a key of its
\* own; the set of those keys is the set of placeholder tokens that occur in
\* the skeleton; a value none of whose parts is handled gives a FormData
\* with the data entry only.
C19_SideTableMatchesLeaves ==
    (pc \in {"encoded", "decoded"} /\ config.generateDataId # "constant")
    => LET handled == Len(EventsOf(enc.log, "serialize"))
           keys == {formData[i].k : i \in 1..Len(formData)} \ {DATA_KEY(config)}
       IN  /\ Cardinality({i \in 1..Len(formData) : formData[i].k = DATA_KEY(config)}) = 1
           /\ Len(formData) = 1 + handled
           /\ Cardinality(keys) = handled
           /\ keys = {str \in Range(StringsOf(Skeleton)) : TokenForm(PrefixInEffect, str).ok}
           /\ handled = 0 => Len(formData) = 1

\* a value the extensions of a list restore: no part is absent, every Blob,
\* date and symbol is taken by the blob, a date or the symbol extension, and
\* no string has the form of a placeholder token
Restorable(v, extensions) ==
    \A x \in Parts(v) :
        /\ x.t \notin {"undefined", "hole", "regexp"} /\ x # InvalidDate
        /\ x.t = "string" => ~TokenForm(PrefixInEffect, x.s).ok
        /\ x.t \in {"blob", "date", "symbol"}
           => /\ Handlers(extensions, x) # {}
              /\ extensions[Least(Handlers(extensions, x))].kind \in {"blob", "date", "symbol"}
        /\ x.t \in {"array", "object"} => Handlers(extensions, x) = {}

\* C20: configurable namespacing.  For every data key and placeholder prefix
\* the caller chooses (non-empty strings, pattern characters included), used
\* for serialize and for deserialize alike, deserialize takes for a
\* placeholder token exactly the strings of the form prefix:name:id, name
\* non-empty and free of ":", id non-empty; so every token that serialize
\* minted is resolved and the round trip restores the value.
C20_ConfigurableNamespacing ==
    (/\ pc = "decoded" /\ dexts = exts /\ Offenders(exts) = {}
     /\ Restorable(value, effectiveExtensions(exts)))
    => /\ extRegex(config).ok
       /\ \A str \in Range(StringsOf(Skeleton)) \cup Range(StringsOf(value)) :
             TokenOf(str).ok <=> TokenForm(PrefixInEffect, str).ok
       /\ Len(dec.log) = Len(enc.table)
       /\ dec.err = NoErr /\ dec.result = value

\* what a caller sees of a deserialize call: the error thrown, the value returned
Outcome(d) == [err |-> d.err, result |-> d.result]

\* deserialize of what a serialize call returned, with the same list
DecodeOf(e, cfg, extensions) ==
    IF e.err # NoErr THEN [err |-> e.err, result |-> Undefined]
    ELSE Outcome(deserialize(e.formData, cfg, extensions))

\* every value an extension's deserialize returned in this decode is one the
\* list hands to that same extension again
ExtensionClosed ==
    \A k \in 1..Len(dec.log) :
        LET used == effectiveExtensions(dexts)
            r == extDeserialize(used[dec.log[k].ext], dec.log[k].arg).v
        IN  /\ r.t \notin {"undefined", "null"}
            /\ Handlers(used, r) # {}
            /\ Least(Handlers(used, r)) = dec.log[k].ext

\* C21: idempotent repeated cycles.  For a value x and a valid list exts
\* such that every value an extension's deserialize returns is handled by
\* that same extension again, feeding deserialize(serialize(x, exts), exts)
\* through serialize and deserialize once more gives that same value.
C21_IdempotentCycles ==
    (/\ pc = "decoded" /\ dexts = exts /\ dec.err = NoErr
     /\ Offenders(exts) = {} /\ ExtensionClosed)
    => DecodeOf(serialize(dec.result, config, exts), config, exts)
         = [err |-> NoErr, result |-> dec.result]

\* the keys of a mapping in their order, and those whose value is not absent
KeysOf(es) == [i \in 1..Len(es) |-> es[i].k]
PresentKeysOf(es) == KeysOf(SelectSeq(es, LAMBDA e : e.v # Undefined))

\* C22: key-order preservation.  For every mapping of the value, at any
\* depth, the mapping decoded at its place has the keys of the input mapping
\* whose values are not absent, in the same order; every array is decoded to
\* an array of the same length whose plain elements stand at their indexes.
C22_KeyOrderPreserved ==
    (pc = "decoded" /\ dec.err = NoErr)
    => \A p \in Pairs(value, dec.result) :
          /\ p[1].t = "object"
             => (p[2].t = "object" /\ KeysOf(p[2].es) = PresentKeysOf(p[1].es))
          /\ p[1].t = "array"
             => /\ p[2].t = "array" /\ Len(p[2].xs) = Len(p[1].xs)
                /\ \A i \in 1..Len(p[1].xs) :
                      p[1].xs[i].t \in {"boolean", "null"} => p[2].xs[i] = p[1].xs[i]

\* C23: serialize validates the extension list before anything else.  When
\* the caller's list is one the validator refuses, serialize fails with the
\* validator's error for the first extension at fault whatever the value is,
\* undefined at the top level included.
C23_ValidationFirst ==
    (pc # "start" /\ Offenders(exts) # {})
    => /\ enc.err.kind \in ValidationErrors
       /\ enc.err.arg = exts[Least(Offenders(exts))].name

\* C24: precedence of validation failures.  The validator reports the first
\* extension, in list order, that breaks a rule, and for it the first rule
\* broken in the order delimiter, blank name, reserved prefix, duplicate: a
\* name that holds ":" and starts with a reserved prefix fails with
\* InvalidExtensionName, and a repeated name standing before an extension
\* with an invalid name fails with DuplicateExtensionName.
C24_ValidationPrecedence ==
    pc = "validated"
    => /\ enc.err # NoErr
          => \E i \in Offenders(exts) :
                /\ \A j \in 1..(i - 1) : j \notin Offenders(exts)
                /\ enc.err.arg = exts[i].name
                /\ enc.err.kind = "InvalidExtensionName"
                   <=> (HasDelimiter(exts[i].name) \/ IsBlank(exts[i].name))
                /\ enc.err.kind = "ReservedPrefix"
                   <=> /\ ~HasDelimiter(exts[i].name) /\ ~IsBlank(exts[i].name)
                       /\ IsReserved(exts[i].name)
                /\ enc.err.kind \in ValidationErrors
       /\ (\E i \in 1..Len(exts) :
              /\ HasDelimiter(exts[i].name) /\ IsReserved(exts[i].name)
              /\ \A j \in 1..(i - 1) : j \notin Offenders(exts))
          => enc.err.kind = "InvalidExtensionName"
       /\ (/\ Len(exts) = 3 /\ 1 \notin Offenders(exts) /\ exts[2].name = exts[1].name
           /\ 3 \in Offenders(exts))
          => enc.err = Err("DuplicateExtensionName", exts[2].name)

\* a repeated name stands before a name that holds ":" and starts with "$"
C24_Witness ==
    /\ pc = "validated" /\ Len(exts) = 3
    /\ 1 \notin Offenders(exts) /\ exts[2].name = exts[1].name
    /\ HasDelimiter(exts[3].name) /\ IsReserved(exts[3].name)
    /\ enc.err.kind = "DuplicateExtensionName"

\* C25: handled subtrees are opaque.  When an extension handles the array or
\* mapping handed to serialize, the skeleton is a single token, serialize is
\* called once and the FormData holds one entry besides the data entry, none
\* for a value inside the array or mapping, even one the blob extension or
\* another extension would handle; and when deserialize resolves that token,
\* the value the extension's deserialize returns is the result as it is:
\* strings inside it that have the form of a token are not resolved.
C25_HandledSubtreesOpaque ==
    (/\ pc \in {"encoded", "decoded"} /\ value.t \in {"array", "object"}
     /\ Handlers(effectiveExtensions(exts), value) # {})
    => /\ enc.result.t = "string" /\ TokenForm(PrefixInEffect, enc.result.s).ok
       /\ EventsOf(enc.log, "serialize")
            = <<Event("serialize", Least(Handlers(effectiveExtensions(exts), value)), value)>>
       /\ Len(enc.table) = 1 /\ Len(formData) = 2
       /\ (pc = "decoded" /\ dec.log # <<>>)
          => /\ Len(dec.log) = 1
             /\ dec.result
                  = extDeserialize(effectiveExtensions(dexts)[dec.log[1].ext], dec.log[1].arg).v

\* a mapping that holds a date and a string of the form of a date token was
\* handled as a whole, with the date extension in the list, and decoded: the
\* string stands in the result unresolved
C25_Witness ==
    /\ pc = "decoded" /\ dexts = exts /\ dec.err = NoErr
    /\ value.t = "object" /\ exts = <<DateExtension, anyExtension>>
    /\ DateV(5) \in Parts(value)
    /\ Len(dec.log) = 1
    /\ \E x \in Parts(dec.result) :
          /\ x.t = "string" /\ TokenForm(PrefixInEffect, x.s).ok
          /\ TokenForm(PrefixInEffect, x.s).name = <<"d", "a", "t", "e">>

\* C26: null bypasses extensions.  serialize never calls canHandle or
\* serialize of an extension on null or on undefined; a null the traversal
\* reaches stands as null in the skeleton and is decoded to null, also when
\* an extension of the list has a canHandle that accepts null.
C26_NullBypassesExtensions ==
    /\ \A k \in 1..Len(enc.log) :
          enc.log[k].op \in {"canHandle", "serialize"}
          => enc.log[k].arg.t \notin {"null", "undefined"}
    /\ pc \in {"encoded", "decoded"}
       => \A p \in Pairs(value, Skeleton) : p[1] = Null => p[2] = Null
    /\ (pc = "decoded" /\ dec.err = NoErr)
       => \A p \in Pairs(value, dec.result) : p[1] = Null => p[2] = Null

\* an array that holds undefined, null and a date was encoded and decoded
\* with an extension that accepts all three
C26_Witness ==
    /\ pc = "decoded" /\ dec.err = NoErr
    /\ exts = <<nullableExtension>> /\ dexts = exts
    /\ value = Arr(<<Undefined, Null, DateV(5)>>)
    /\ <<Null, Null>> \in Pairs(value, Skeleton)
    /\ dec.result = Arr(<<Null, Null, DateV(5)>>)
    /\ Len(EventsOf(enc.log, "serialize")) = 1

\* the values an extension of the list handles, in the order of a depth-first
\* walk that follows array indices and the mapping's own key order and does
\* not enter a handled value
RECURSIVE HandledLeaves(_, _)
RECURSIVE HandledAmong(_, _, _)
HandledAmong(extensions, items, i) ==
    IF i > Len(items) THEN <<>>
    ELSE HandledLeaves(extensions, items[i]) \o HandledAmong(extensions, items, i + 1)

HandledLeaves(extensions, x) ==
    IF x.t \in {"undefined", "null", "hole"} THEN <<>>
    ELSE IF Handlers(extensions, x) # {} THEN <<x>>
    ELSE IF x.t = "array" THEN HandledAmong(extensions, x.xs, 1)
    ELSE IF isPlainObject(x)
         THEN HandledAmong(extensions, [i \in 1..Len(x.es) |-> x.es[i].v], 1)
    ELSE <<>>

\* the k-th id of a generator that counts its calls from zero
CounterId(k) == <<"c", "u", "s", "t", "o", "m", "-">> \o NatToChars(k - 1)

\* C27: order of id minting.  During serialize the id generator is called
\* once per handled value, in depth-first order along array indices and
\* mapping keys, each time right after that value's serialize returned and
\* with the payload serialize returned; a serialize that throws ends the
\* call; with a generator that counts its calls the k-th handled value gets
\* the k-th id.
C27_MintingOrder ==
    pc # "start"
    => LET used == effectiveExtensions(exts)
           log == enc.log
           handled == EventsOf(log, "serialize")
           minted == EventsOf(log, "mint")
       IN  /\ \A k \in 1..Len(log) :
                 /\ log[k].op = "mint"
                    => /\ k > 1 /\ log[k - 1].op = "serialize"
                       /\ log[k].arg = extSerialize(used[log[k - 1].ext], log[k - 1].arg).v
                 /\ log[k].op = "serialize"
                    => \/ k < Len(log) /\ log[k + 1].op = "mint"
                       \/ k = Len(log) /\ enc.err # NoErr
           /\ (enc.err = NoErr /\ value # Undefined)
              => /\ [k \in 1..Len(handled) |-> handled[k].arg] = HandledLeaves(used, value)
                 /\ Len(minted) = Len(handled)
           /\ (enc.err = NoErr /\ value # Undefined /\ config.generateDataId = "counter")
              => /\ Len(formData) = 1 + Len(handled)
                 /\ \A k \in 1..Len(handled) :
                       formData[k + 1].k
                          = GET_HOLE_KEY(config, used[handled[k].ext].name, CounterId(k))

\* a mapping whose first key holds an array with a date and whose second key
\* holds a Blob was encoded under the counting generator: the date, deeper
\* but earlier, got the first id and the Blob the second
C27_Witness ==
    /\ pc = "encoded" /\ enc.err = NoErr /\ config.generateDataId = "counter"
    /\ value = Obj(<<Entry(sB, Arr(<<DateV(5), Undefined>>)), Entry(sA, Blob(sBytes))>>)
    /\ exts = <<DateExtension>>
    /\ Len(EventsOf(enc.log, "mint")) = 2
    /\ formData[2].k = GET_HOLE_KEY(config, <<"d", "a", "t", "e">>, CounterId(1))
    /\ formData[3].k = GET_HOLE_KEY(config, sBlob, CounterId(2))

\* array y has the length of array x, null wherever x has undefined or a
\* hole, and a placeholder string wherever x has a handled value
NullsInPlace(extensions, x, y) ==
    /\ y.t = "array" /\ Len(y.xs) = Len(x.xs)
    /\ \A i \in 1..Len(x.xs) :
          /\ x.xs[i] \in {Undefined, Hole} => y.xs[i] = Null
          /\ (x.xs[i].t \notin {"undefined", "hole", "null"}
              /\ Handlers(extensions, x.xs[i]) # {}) => y.xs[i].t = "string"

\* C28: absent array elements become null.  In every array the traversal
\* of serialize enters, an element that is undefined or a hole stands as
\* null in the skeleton and is decoded to null; the array keeps its length
\* and the other elements their positions, whereas a mapping key whose
\* value is undefined is left out.
C28_AbsentElementsBecomeNull ==
    LET used == effectiveExtensions(exts)
    IN  /\ pc \in {"encoded", "decoded"}
           => \A p \in Pairs(value, Skeleton) :
                 /\ (p[1].t = "array" /\ Handlers(used, p[1]) = {})
                    => NullsInPlace(used, p[1], p[2])
                 /\ (p[1].t = "object" /\ p[2].t = "object")
                    => \A i \in 1..Len(p[1].es) :
                          p[1].es[i].v = Undefined => ~HasKey(p[2].es, p[1].es[i].k)
        /\ (pc = "decoded" /\ dec.err = NoErr)
           => \A p \in Pairs(value, dec.result) :
                 (p[1].t = "array" /\ Handlers(used, p[1]) = {})
                 => /\ p[2].t = "array" /\ Len(p[2].xs) = Len(p[1].xs)
                    /\ \A i \in 1..Len(p[1].xs) :
                          p[1].xs[i] \in {Undefined, Hole} => p[2].xs[i] = Null

\* an array of a hole and a date was encoded and decoded: null, then the date
C28_Witness ==
    /\ pc = "decoded" /\ dec.err = NoErr /\ dexts = exts /\ exts = <<DateExtension>>
    /\ value = Arr(<<Hole, DateV(5)>>)
    /\ Skeleton.t = "array" /\ Len(Skeleton.xs) = 2 /\ Skeleton.xs[1] = Null
    /\ dec.result = Arr(<<Null, DateV(5)>>)

\* the extension names the tokens of the container's skeleton refer to
ReferencedNames ==
    IF DataText # Unset /\ JSONparse(DataText).ok
    THEN {TokenForm(PrefixInEffect, str).name :
            str \in {x \in Range(StringsOf(JSONparse(DataText).v)) :
                        TokenForm(PrefixInEffect, x).ok}}
    ELSE {}

\* the members of a list that carry a name
ExtNamed(extensions, name) ==
    {extensions[i] : i \in {j \in 1..Len(extensions) : extensions[j].name = name}}

\* the lists deserialize could have been given instead
OtherLists ==
    SeqsUpTo({DateExtension, anyExtension, brokenExtension, SymbolExtension,
              Ext(sColon, "date")}, MaxExtensions)

\* C29: deserialize does not depend on the order or on unused members of
\* the extension list.  For every container and every two valid lists that
\* hold the same extensions under each name a token of the skeleton refers
\* to, in any order and with any further extensions, deserialize returns
\* the same value or throws the same error.
C29_ListOrderIrrelevant ==
    (pc = "decoded" /\ Offenders(dexts) = {})
    => \A other \in OtherLists :
          (/\ Offenders(other) = {}
           /\ \A n \in ReferencedNames : ExtNamed(other, n) = ExtNamed(dexts, n))
          => Outcome(deserialize(formData, config, other)) = Outcome(dec)

\* a skeleton with a date token and a token of a second extension was decoded
\* with the two extensions; the reversed list is another list that agrees
C29_Witness ==
    /\ pc = "decoded" /\ dec.err = NoErr
    /\ dexts = <<DateExtension, anyExtension>>
    /\ Cardinality(ReferencedNames) = 2
    /\ Reverse(dexts) \in OtherLists
    /\ dec.result.t = "array" /\ dec.result.xs[1] = DateV(5)

\* the strings of the container's skeleton
SkeletonStrings ==
    IF DataText # Unset /\ JSONparse(DataText).ok
    THEN Range(StringsOf(JSONparse(DataText).v))
    ELSE {}

\* a container entry under a placeholder key, of the kind its extension name
\* calls for, that no string of the skeleton refers to
Unreferenced(e) ==
    /\ e.k # DATA_KEY(config)
    /\ TokenForm(PrefixInEffect, e.k).ok
    /\ ~IllTyped(e)
    /\ e.k \notin SkeletonStrings

\* the container without its unreferenced entries
Referenced(fd) == SelectSeq(fd, LAMBDA e : ~Unreferenced(e))

\* C30: unreferenced side-table entries do not affect the result.  The
\* value deserialize returns, or the error it throws, is the one it gives on
\* the same container without the well-formed entries under placeholder keys
\* that no string of the skeleton refers to, also when such a key names an
\* extension the list does not hold; UnknownExtension carries the name of a
\* token that occurs in the skeleton.
C30_UnreferencedEntriesIgnored ==
    pc = "decoded"
    => /\ Outcome(deserialize(Referenced(formData), config, dexts)) = Outcome(dec)
       /\ dec.err.kind = "UnknownExtension" => dec.err.arg \in ReferencedNames

\* a container whose skeleton is a plain string and which holds a payload
\* under a date token was decoded with an empty list
C30_Witness ==
    /\ pc = "decoded" /\ dexts = <<>> /\ dec.err = NoErr /\ dec.result = Str(<<"a">>)
    /\ Len(formData) = 2 /\ Unreferenced(formData[2])
    /\ TokenForm(PrefixInEffect, formData[2].k).name = <<"d", "a", "t", "e">>
    /\ Len(Referenced(formData)) = 1

====
